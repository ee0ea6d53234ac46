------------------------------- MODULE Frames -------------------------------
(***************************************************************************)
(* Rigid motions as the policies compute with them: se3.py and geometry.py   *)
(* of phy_data_collection and the copies of them in phy_policy.  Rotations   *)
(* are the 24 that map the axes to each other, positions have integer        *)
(* coordinates, so that every formula is evaluated exactly; a quaternion     *)
(* stands for itself up to a positive factor, which the code divides out.    *)
(***************************************************************************)
EXTENDS Integers, Sequences, FiniteSets

Axes == 1 .. 3

Plus(u, v)   == <<u[1] + v[1], u[2] + v[2], u[3] + v[3]>>
Minus(u, v)  == <<u[1] - v[1], u[2] - v[2], u[3] - v[3]>>
Times(k, v)  == <<k * v[1], k * v[2], k * v[3]>>
Dot(u, v)    == u[1] * v[1] + u[2] * v[2] + u[3] * v[3]
Column(R, j) == <<R[1][j], R[2][j], R[3][j]>>
Apply(R, v)  == <<Dot(R[1], v), Dot(R[2], v), Dot(R[3], v)>>
Transpose(R) == <<Column(R, 1), Column(R, 2), Column(R, 3)>>
Rotate(R, S) == Transpose(<<Apply(R, Column(S, 1)), Apply(R, Column(S, 2)),
                            Apply(R, Column(S, 3))>>)
Zero         == <<0, 0, 0>>
Identity     == <<<<1, 0, 0>>, <<0, 1, 0>>, <<0, 0, 1>>>>

-----------------------------------------------------------------------------
(* Quaternions, x y z w.                                                    *)

Norm2(q) == q[1] * q[1] + q[2] * q[2] + q[3] * q[3] + q[4] * q[4]

\* quaternion_matrix: what is entered, the norm times the matrix, and the norm
\* divided out.
Scaled(q) ==
    LET x == q[1]  y == q[2]  z == q[3]  w == q[4]
        n == Norm2(q)
    IN  <<<<n - 2 * (y*y + z*z), 2 * (x*y - z*w), 2 * (x*z + y*w)>>,
          <<2 * (x*y + z*w), n - 2 * (x*x + z*z), 2 * (y*z - x*w)>>,
          <<2 * (x*z - y*w), 2 * (y*z + x*w), n - 2 * (x*x + y*y)>>>>

Divided(v, n) == <<v[1] \div n, v[2] \div n, v[3] \div n>>

Quotient(m, n) == <<Divided(m[1], n), Divided(m[2], n), Divided(m[3], n)>>

quaternion_matrix(q) == Quotient(Scaled(q), Norm2(q))

\* argmax of the diagonal: the first of the largest entries.
Largest(R) ==
    CHOOSE i \in Axes : /\ \A j \in Axes : R[j][j] <= R[i][i]
                        /\ \A j \in 1 .. i - 1 : R[j][j] < R[i][i]

\* w is made non-negative.
Positive(q) == IF q[4] < 0 THEN <<-q[1], -q[2], -q[3], -q[4]>> ELSE q

\* A branch per sign of the trace and largest diagonal entry, each multiplied by
\* its scale.
matrix_quaternion(R) ==
    LET trace == R[1][1] + R[2][2] + R[3][3]
    IN  Positive(
          IF trace > 0
          THEN <<R[3][2] - R[2][3], R[1][3] - R[3][1], R[2][1] - R[1][2], trace + 1>>
          ELSE CASE Largest(R) = 1 ->
                    <<1 + R[1][1] - R[2][2] - R[3][3], R[1][2] + R[2][1],
                      R[1][3] + R[3][1], R[3][2] - R[2][3]>>
                 [] Largest(R) = 2 ->
                    <<R[1][2] + R[2][1], 1 + R[2][2] - R[1][1] - R[3][3],
                      R[2][3] + R[3][2], R[1][3] - R[3][1]>>
                 [] Largest(R) = 3 ->
                    <<R[1][3] + R[3][1], R[2][3] + R[3][2],
                      1 + R[3][3] - R[1][1] - R[2][2], R[2][1] - R[1][2]>>)

multiply_quaternions(a, b) ==
    <<a[4]*b[1] + a[1]*b[4] + a[2]*b[3] - a[3]*b[2],
      a[4]*b[2] - a[1]*b[3] + a[2]*b[4] + a[3]*b[1],
      a[4]*b[3] + a[1]*b[2] - a[2]*b[1] + a[3]*b[4],
      a[4]*b[4] - a[1]*b[1] - a[2]*b[2] - a[3]*b[3]>>

Conjugate(q) == <<-q[1], -q[2], -q[3], q[4]>>

\* axis_angle_quaternion for a unit axis and an angle of so many quarter turns.
axis_angle_quaternion(axis, quarters) ==
    LET Half(s, c) == <<s * axis[1], s * axis[2], s * axis[3], c>>
    IN  IF axis = Zero THEN <<0, 0, 0, 1>>
        ELSE CASE quarters % 4 = 0 -> Half(0, 1)
               [] quarters % 4 = 1 -> Half(1, 1)
               [] quarters % 4 = 2 -> Half(1, 0)
               [] quarters % 4 = 3 -> Half(1, -1)

-----------------------------------------------------------------------------
(* Transforms: [t |-> translation, q |-> quaternion] in messages and records, *)
(* [t |-> translation, r |-> rotation] as 4x4 matrices.                       *)

transform_matrix(tf) == [t |-> tf.t, r |-> quaternion_matrix(tf.q)]

Compose(A, B) == [t |-> Plus(A.t, Apply(A.r, B.t)), r |-> Rotate(A.r, B.r)]
Inverse(A)    == LET r == Transpose(A.r) IN [t |-> Times(-1, Apply(r, A.t)), r |-> r]

\* pose_record and matrix_from_pose_record.
pose_record(M) == [t |-> M.t, q |-> matrix_quaternion(M.r)]
matrix_from_pose_record(rec) == transform_matrix(rec)

\* se3_log and se3_exp: the rotation part is the principal rotation vector,
\* which the quaternion with w >= 0 names; the translation part is the one of
\* the matrix seen through a Jacobian that is invertible below a full turn.
se3_log(M) == [v |-> M.t, w |-> matrix_quaternion(M.r)]
se3_exp(x) == [t |-> x.v, r |-> quaternion_matrix(x.w)]

\* A quaternion whose matrix has integer entries: a rotation that maps axes to
\* axes.  The rotations of the model, each as the code would have its quaternion.
Exact(q) ==
    /\ \A i \in 1 .. 4 : q[i] \in Int
    /\ Norm2(q) > 0
    /\ \A i, j \in Axes : Norm2(q) * quaternion_matrix(q)[i][j] = Scaled(q)[i][j]

Quaternions == {q \in [1 .. 4 -> -1 .. 1] : Exact(q)}
Rotations == {quaternion_matrix(q) : q \in Quaternions}

=============================================================================
