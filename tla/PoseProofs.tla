----------------------------- MODULE PoseProofs -----------------------------
(***************************************************************************)
(* Proofs about PoseLabels: a plan leads where its sample says and the three  *)
(* files give back the poses of a capture, for every scene, sample, slip and  *)
(* mount of the model.  A rotation is a matrix that an integer quaternion     *)
(* names, which products, conjugates and the branches of matrix_quaternion    *)
(* keep; motions are a group, and poses are read in it.                       *)
(***************************************************************************)
EXTENDS MCLabels, SequenceTheorems, TLAPS

-----------------------------------------------------------------------------
(* Vectors and matrices of integers                                           *)

Vec == Poses!Vectors
Mat == Vec \X Vec \X Vec
SameVec(u, v) == u[1] = v[1] /\ u[2] = v[2] /\ u[3] = v[3]

\* A vector is its three coordinates.
LEMMA VecIs ==
    ASSUME NEW v \in Vec
    PROVE  v = <<v[1], v[2], v[3]>> /\ v[1] \in Int /\ v[2] \in Int /\ v[3] \in Int
BY DEF Vec, Poses!Vectors

\* Vectors of the same coordinates are the same.
LEMMA VecSame ==
    ASSUME NEW u \in Vec, NEW v \in Vec, SameVec(u, v)
    PROVE  u = v
BY VecIs DEF SameVec

\* A matrix is its three rows.
LEMMA MatIs ==
    ASSUME NEW R \in Mat
    PROVE  R = <<R[1], R[2], R[3]>> /\ R[1] \in Vec /\ R[2] \in Vec /\ R[3] \in Vec
BY DEF Mat

\* The nine entries of a matrix.
Entries(R) ==
    /\ R[1][1] \in Int /\ R[1][2] \in Int /\ R[1][3] \in Int
    /\ R[2][1] \in Int /\ R[2][2] \in Int /\ R[2][3] \in Int
    /\ R[3][1] \in Int /\ R[3][2] \in Int /\ R[3][3] \in Int

\* Its nine entries are integers.
LEMMA MatEntries ==
    ASSUME NEW R \in Mat
    PROVE  Entries(R)
BY MatIs, VecIs DEF Entries

\* The operators give vectors and matrices.
LEMMA PlusVec ==
    ASSUME NEW u \in Vec, NEW v \in Vec
    PROVE  Poses!Plus(u, v) \in Vec
BY VecIs DEF Poses!Plus, Vec, Poses!Vectors

\* A difference of vectors is a vector.
LEMMA MinusVec ==
    ASSUME NEW u \in Vec, NEW v \in Vec
    PROVE  Poses!Minus(u, v) \in Vec
BY VecIs DEF Poses!Minus, Vec, Poses!Vectors

\* A multiple of a vector is a vector.
LEMMA TimesVec ==
    ASSUME NEW k \in Int, NEW v \in Vec
    PROVE  Poses!Times(k, v) \in Vec
BY VecIs DEF Poses!Times, Vec, Poses!Vectors

\* A product of vectors is a number.
LEMMA DotInt ==
    ASSUME NEW u \in Vec, NEW v \in Vec
    PROVE  Poses!Dot(u, v) \in Int
BY VecIs DEF Poses!Dot

\* A matrix takes a vector to a vector.
LEMMA ApplyVec ==
    ASSUME NEW R \in Mat, NEW v \in Vec
    PROVE  Poses!Apply(R, v) \in Vec
BY MatIs, DotInt DEF Poses!Apply, Vec, Poses!Vectors

\* A column is a vector.
LEMMA ColumnVec ==
    ASSUME NEW R \in Mat, NEW j \in 1 .. 3
    PROVE  Poses!Column(R, j) \in Vec
<1>1. j = 1 \/ j = 2 \/ j = 3
  OBVIOUS
<1> QED BY <1>1, MatEntries DEF Poses!Column, Entries, Vec, Poses!Vectors

\* A transpose is a matrix.
LEMMA TransposeMat ==
    ASSUME NEW R \in Mat
    PROVE  Poses!Transpose(R) \in Mat
BY ColumnVec DEF Poses!Transpose, Mat

\* A product of matrices is a matrix.
LEMMA RotateMat ==
    ASSUME NEW R \in Mat, NEW S \in Mat
    PROVE  Poses!Rotate(R, S) \in Mat
<1>1. \A j \in 1 .. 3 : Poses!Apply(R, Poses!Column(S, j)) \in Vec
  BY ColumnVec, ApplyVec
<1>2. <<Poses!Apply(R, Poses!Column(S, 1)), Poses!Apply(R, Poses!Column(S, 2)),
        Poses!Apply(R, Poses!Column(S, 3))>> \in Mat
  BY <1>1 DEF Mat
<1> QED BY <1>2, TransposeMat DEF Poses!Rotate

\* A matrix is its rows, and a product of matrices entry by entry.
LEMMA MatSame ==
    ASSUME NEW R \in Mat, NEW S \in Mat,
           SameVec(R[1], S[1]), SameVec(R[2], S[2]), SameVec(R[3], S[3])
    PROVE  R = S
BY MatIs, VecSame

\* A transpose, entry by entry.
LEMMA TransposeAt ==
    ASSUME NEW R, NEW i \in 1 .. 3, NEW j \in 1 .. 3
    PROVE  Poses!Transpose(R)[i][j] = R[j][i]
<1>1. (i = 1 \/ i = 2 \/ i = 3) /\ (j = 1 \/ j = 2 \/ j = 3)
  OBVIOUS
<1> QED BY <1>1 DEF Poses!Transpose, Poses!Column

\* An entry of a product is a row times a column.
LEMMA RotateAt ==
    ASSUME NEW R, NEW S, NEW i \in 1 .. 3, NEW j \in 1 .. 3
    PROVE  Poses!Rotate(R, S)[i][j] = Poses!Dot(R[i], Poses!Column(S, j))
<1>1. (i = 1 \/ i = 2 \/ i = 3) /\ (j = 1 \/ j = 2 \/ j = 3)
  OBVIOUS
<1>2. \A k \in 1 .. 3 :
        /\ Poses!Apply(R, Poses!Column(S, k))[1] = Poses!Dot(R[1], Poses!Column(S, k))
        /\ Poses!Apply(R, Poses!Column(S, k))[2] = Poses!Dot(R[2], Poses!Column(S, k))
        /\ Poses!Apply(R, Poses!Column(S, k))[3] = Poses!Dot(R[3], Poses!Column(S, k))
  BY DEF Poses!Apply
<1> DEFINE T == <<Poses!Apply(R, Poses!Column(S, 1)), Poses!Apply(R, Poses!Column(S, 2)),
                  Poses!Apply(R, Poses!Column(S, 3))>>
<1>3. Poses!Rotate(R, S)[i][j] = T[j][i]
  BY TransposeAt DEF Poses!Rotate
<1> QED BY <1>1, <1>2, <1>3

\* A product of matrices acts as one after the other, and is associative.
LEMMA DotProduct ==
    ASSUME NEW a \in Int, NEW b \in Int, NEW c \in Int,
           NEW s11 \in Int, NEW s12 \in Int, NEW s13 \in Int,
           NEW s21 \in Int, NEW s22 \in Int, NEW s23 \in Int,
           NEW s31 \in Int, NEW s32 \in Int, NEW s33 \in Int,
           NEW x \in Int, NEW y \in Int, NEW z \in Int
    PROVE  (a*s11 + b*s21 + c*s31)*x + (a*s12 + b*s22 + c*s32)*y + (a*s13 + b*s23 + c*s33)*z
             = a*(s11*x + s12*y + s13*z) + b*(s21*x + s22*y + s23*z) + c*(s31*x + s32*y + s33*z)
OBVIOUS

\* A row of a product times a vector, summed in either order.
LEMMA DotRotate ==
    ASSUME NEW u \in Vec, NEW S \in Mat, NEW v \in Vec
    PROVE  Poses!Dot(<<Poses!Dot(u, Poses!Column(S, 1)), Poses!Dot(u, Poses!Column(S, 2)),
                       Poses!Dot(u, Poses!Column(S, 3))>>, v) = Poses!Dot(u, Poses!Apply(S, v))
<1>1. Entries(S)
  BY MatEntries
<1>2. u[1] \in Int /\ u[2] \in Int /\ u[3] \in Int /\ v[1] \in Int /\ v[2] \in Int /\ v[3] \in Int
  BY VecIs
<1> QED
  BY <1>1, <1>2, DotProduct DEF Entries, Poses!Dot, Poses!Column, Poses!Apply

\* A product of matrices acts as one after the other.
LEMMA ApplyRotate ==
    ASSUME NEW R \in Mat, NEW S \in Mat, NEW v \in Vec
    PROVE  Poses!Apply(Poses!Rotate(R, S), v) = Poses!Apply(R, Poses!Apply(S, v))
<1> DEFINE RS == Poses!Rotate(R, S)
           RowOf(i) == <<Poses!Dot(R[i], Poses!Column(S, 1)), Poses!Dot(R[i], Poses!Column(S, 2)),
                       Poses!Dot(R[i], Poses!Column(S, 3))>>
<1>1. RS \in Mat
  BY RotateMat
<1>2. \A i \in 1 .. 3 : RS[i] = RowOf(i)
  <2> SUFFICES ASSUME NEW i \in 1 .. 3 PROVE RS[i] = RowOf(i)
    OBVIOUS
  <2>1. RS[i] \in Vec
    BY <1>1, MatIs
  <2>2. RS[i][1] = RowOf(i)[1] /\ RS[i][2] = RowOf(i)[2] /\ RS[i][3] = RowOf(i)[3]
    BY RotateAt
  <2>3. RS[i] = <<RS[i][1], RS[i][2], RS[i][3]>>
    BY <2>1, VecIs
  <2> QED BY <2>2, <2>3
<1>3. R[1] \in Vec /\ R[2] \in Vec /\ R[3] \in Vec
  BY MatIs
<1>4. /\ Poses!Dot(RowOf(1), v) = Poses!Dot(R[1], Poses!Apply(S, v))
      /\ Poses!Dot(RowOf(2), v) = Poses!Dot(R[2], Poses!Apply(S, v))
      /\ Poses!Dot(RowOf(3), v) = Poses!Dot(R[3], Poses!Apply(S, v))
  BY <1>3, DotRotate
<1> HIDE DEF RS, RowOf
<1>5. /\ Poses!Dot(RS[1], v) = Poses!Dot(R[1], Poses!Apply(S, v))
      /\ Poses!Dot(RS[2], v) = Poses!Dot(R[2], Poses!Apply(S, v))
      /\ Poses!Dot(RS[3], v) = Poses!Dot(R[3], Poses!Apply(S, v))
  BY <1>2, <1>4
<1>6. Poses!Apply(RS, v) = Poses!Apply(R, Poses!Apply(S, v))
  <2> DEFINE w == Poses!Apply(S, v)
  <2> HIDE DEF w
  <2> SUFFICES Poses!Apply(RS, v) = Poses!Apply(R, w)
    BY DEF w
  <2>1. /\ Poses!Dot(RS[1], v) = Poses!Dot(R[1], w)
        /\ Poses!Dot(RS[2], v) = Poses!Dot(R[2], w)
        /\ Poses!Dot(RS[3], v) = Poses!Dot(R[3], w)
    BY <1>5 DEF w
  <2> QED BY <2>1 DEF Poses!Apply
<1> QED BY <1>6 DEF RS

\* A column of a product is the first matrix on a column of the second.
LEMMA ColumnRotate ==
    ASSUME NEW R \in Mat, NEW S \in Mat, NEW j \in 1 .. 3
    PROVE  Poses!Column(Poses!Rotate(R, S), j) = Poses!Apply(R, Poses!Column(S, j))
<1> DEFINE C == Poses!Column(S, j)
<1>1. /\ Poses!Rotate(R, S)[1][j] = Poses!Dot(R[1], C)
      /\ Poses!Rotate(R, S)[2][j] = Poses!Dot(R[2], C)
      /\ Poses!Rotate(R, S)[3][j] = Poses!Dot(R[3], C)
  BY RotateAt
<1> HIDE DEF C
<1>2. Poses!Column(Poses!Rotate(R, S), j) = Poses!Apply(R, C)
  BY <1>1 DEF Poses!Column, Poses!Apply
<1> QED BY <1>2 DEF C

\* Matrices of the same columns are the same.
LEMMA ColumnsSame ==
    ASSUME NEW R \in Mat, NEW S \in Mat,
           \A j \in 1 .. 3 : Poses!Column(R, j) = Poses!Column(S, j)
    PROVE  R = S
<1>1. \A j \in 1 .. 3 : R[1][j] = S[1][j] /\ R[2][j] = S[2][j] /\ R[3][j] = S[3][j]
  <2> SUFFICES ASSUME NEW j \in 1 .. 3
               PROVE  R[1][j] = S[1][j] /\ R[2][j] = S[2][j] /\ R[3][j] = S[3][j]
    OBVIOUS
  <2>1. <<R[1][j], R[2][j], R[3][j]>> = <<S[1][j], S[2][j], S[3][j]>>
    BY DEF Poses!Column
  <2> QED BY <2>1
<1>2. SameVec(R[1], S[1]) /\ SameVec(R[2], S[2]) /\ SameVec(R[3], S[3])
  BY <1>1 DEF SameVec
<1> QED BY <1>2, MatSame

\* Products of matrices are associative.
LEMMA RotateRotate ==
    ASSUME NEW R \in Mat, NEW S \in Mat, NEW T \in Mat
    PROVE  Poses!Rotate(Poses!Rotate(R, S), T) = Poses!Rotate(R, Poses!Rotate(S, T))
<1> DEFINE A == Poses!Rotate(R, S)
           B == Poses!Rotate(S, T)
<1>1. A \in Mat /\ B \in Mat
  BY RotateMat
<1>2. Poses!Rotate(A, T) \in Mat /\ Poses!Rotate(R, B) \in Mat
  BY <1>1, RotateMat
<1>3. ASSUME NEW j \in 1 .. 3
      PROVE  Poses!Column(Poses!Rotate(A, T), j) = Poses!Column(Poses!Rotate(R, B), j)
  <2> DEFINE C == Poses!Column(T, j)
  <2>1. C \in Vec
    BY ColumnVec
  <2>2. Poses!Column(Poses!Rotate(A, T), j) = Poses!Apply(A, C)
    BY <1>1, ColumnRotate
  <2>3. Poses!Apply(A, C) = Poses!Apply(R, Poses!Apply(S, C))
    BY <2>1, ApplyRotate
  <2>4. Poses!Column(Poses!Rotate(R, B), j) = Poses!Apply(R, Poses!Column(B, j))
    BY <1>1, ColumnRotate
  <2>5. Poses!Column(B, j) = Poses!Apply(S, C)
    BY ColumnRotate
  <2> QED BY <2>2, <2>3, <2>4, <2>5
<1> HIDE DEF A, B
<1>4. Poses!Rotate(A, T) = Poses!Rotate(R, B)
  BY <1>2, <1>3, ColumnsSame
<1> QED BY <1>4 DEF A, B

\* A matrix is linear.
LEMMA DotLinear ==
    ASSUME NEW r \in Vec, NEW u \in Vec, NEW v \in Vec, NEW k \in Int
    PROVE  /\ Poses!Dot(r, Poses!Plus(u, v)) = Poses!Dot(r, u) + Poses!Dot(r, v)
           /\ Poses!Dot(r, Poses!Minus(u, v)) = Poses!Dot(r, u) - Poses!Dot(r, v)
           /\ Poses!Dot(r, Poses!Times(k, u)) = k * Poses!Dot(r, u)
<1>1. /\ r[1] \in Int /\ r[2] \in Int /\ r[3] \in Int /\ u[1] \in Int /\ u[2] \in Int
      /\ u[3] \in Int /\ v[1] \in Int /\ v[2] \in Int /\ v[3] \in Int
  BY VecIs
<1> QED BY <1>1 DEF Poses!Dot, Poses!Plus, Poses!Minus, Poses!Times

\* A matrix takes a sum to the sum of what it takes the parts to.
LEMMA ApplyPlus ==
    ASSUME NEW R \in Mat, NEW u \in Vec, NEW v \in Vec
    PROVE  Poses!Apply(R, Poses!Plus(u, v)) = Poses!Plus(Poses!Apply(R, u), Poses!Apply(R, v))
<1>0. R[1] \in Vec /\ R[2] \in Vec /\ R[3] \in Vec
  BY MatIs
<1>1. /\ Poses!Dot(R[1], Poses!Plus(u, v)) = Poses!Dot(R[1], u) + Poses!Dot(R[1], v)
      /\ Poses!Dot(R[2], Poses!Plus(u, v)) = Poses!Dot(R[2], u) + Poses!Dot(R[2], v)
      /\ Poses!Dot(R[3], Poses!Plus(u, v)) = Poses!Dot(R[3], u) + Poses!Dot(R[3], v)
  BY <1>0, DotLinear
<1> DEFINE w == Poses!Plus(u, v)
<1> HIDE DEF w
<1>2. Poses!Apply(R, w) = Poses!Plus(Poses!Apply(R, u), Poses!Apply(R, v))
  <2>1. /\ Poses!Dot(R[1], w) = Poses!Dot(R[1], u) + Poses!Dot(R[1], v)
        /\ Poses!Dot(R[2], w) = Poses!Dot(R[2], u) + Poses!Dot(R[2], v)
        /\ Poses!Dot(R[3], w) = Poses!Dot(R[3], u) + Poses!Dot(R[3], v)
    BY <1>1 DEF w
  <2> QED BY <2>1 DEF Poses!Apply, Poses!Plus
<1> QED BY <1>2 DEF w

\* The same for a difference.
LEMMA ApplyMinus ==
    ASSUME NEW R \in Mat, NEW u \in Vec, NEW v \in Vec
    PROVE  Poses!Apply(R, Poses!Minus(u, v)) = Poses!Minus(Poses!Apply(R, u), Poses!Apply(R, v))
<1>0. R[1] \in Vec /\ R[2] \in Vec /\ R[3] \in Vec
  BY MatIs
<1>1. /\ Poses!Dot(R[1], Poses!Minus(u, v)) = Poses!Dot(R[1], u) - Poses!Dot(R[1], v)
      /\ Poses!Dot(R[2], Poses!Minus(u, v)) = Poses!Dot(R[2], u) - Poses!Dot(R[2], v)
      /\ Poses!Dot(R[3], Poses!Minus(u, v)) = Poses!Dot(R[3], u) - Poses!Dot(R[3], v)
  BY <1>0, DotLinear
<1> DEFINE w == Poses!Minus(u, v)
<1> HIDE DEF w
<1>2. Poses!Apply(R, w) = Poses!Minus(Poses!Apply(R, u), Poses!Apply(R, v))
  <2>1. /\ Poses!Dot(R[1], w) = Poses!Dot(R[1], u) - Poses!Dot(R[1], v)
        /\ Poses!Dot(R[2], w) = Poses!Dot(R[2], u) - Poses!Dot(R[2], v)
        /\ Poses!Dot(R[3], w) = Poses!Dot(R[3], u) - Poses!Dot(R[3], v)
    BY <1>1 DEF w
  <2> QED BY <2>1 DEF Poses!Apply, Poses!Minus
<1> QED BY <1>2 DEF w

\* The same for a multiple.
LEMMA ApplyTimes ==
    ASSUME NEW R \in Mat, NEW u \in Vec, NEW k \in Int
    PROVE  Poses!Apply(R, Poses!Times(k, u)) = Poses!Times(k, Poses!Apply(R, u))
<1>0. R[1] \in Vec /\ R[2] \in Vec /\ R[3] \in Vec
  BY MatIs
<1>1. /\ Poses!Dot(R[1], Poses!Times(k, u)) = k * Poses!Dot(R[1], u)
      /\ Poses!Dot(R[2], Poses!Times(k, u)) = k * Poses!Dot(R[2], u)
      /\ Poses!Dot(R[3], Poses!Times(k, u)) = k * Poses!Dot(R[3], u)
  BY <1>0, DotLinear
<1> DEFINE w == Poses!Times(k, u)
<1> HIDE DEF w
<1>2. Poses!Apply(R, w) = Poses!Times(k, Poses!Apply(R, u))
  <2>1. /\ Poses!Dot(R[1], w) = k * Poses!Dot(R[1], u)
        /\ Poses!Dot(R[2], w) = k * Poses!Dot(R[2], u)
        /\ Poses!Dot(R[3], w) = k * Poses!Dot(R[3], u)
    BY <1>1 DEF w
  <2> QED BY <2>1 DEF Poses!Apply, Poses!Times
<1> QED BY <1>2 DEF w

\* The identity leaves a vector where it is.
LEMMA ApplyIdentity ==
    ASSUME NEW v \in Vec
    PROVE  Poses!Apply(Poses!Identity, v) = v
<1>1. v = <<v[1], v[2], v[3]>> /\ v[1] \in Int /\ v[2] \in Int /\ v[3] \in Int
  BY VecIs
<1>2. Poses!Apply(Poses!Identity, v) = <<v[1], v[2], v[3]>>
  BY <1>1 DEF Poses!Apply, Poses!Identity, Poses!Dot
<1> QED BY <1>1, <1>2

-----------------------------------------------------------------------------
(* Quaternions and the rotations they name                                    *)

Four(q) == q[1] \in Int /\ q[2] \in Int /\ q[3] \in Int /\ q[4] \in Int

\* A quaternion names a matrix: its norm times an entry is what the code enters
\* before it divides.
Names(q, R) ==
    /\ Four(q) /\ R \in Mat /\ Poses!Norm2(q) \in Int /\ Poses!Norm2(q) > 0
    /\ Poses!Norm2(q) * R[1][1] = Poses!Norm2(q) - 2 * (q[2]*q[2] + q[3]*q[3])
    /\ Poses!Norm2(q) * R[1][2] = 2 * (q[1]*q[2] - q[3]*q[4])
    /\ Poses!Norm2(q) * R[1][3] = 2 * (q[1]*q[3] + q[2]*q[4])
    /\ Poses!Norm2(q) * R[2][1] = 2 * (q[1]*q[2] + q[3]*q[4])
    /\ Poses!Norm2(q) * R[2][2] = Poses!Norm2(q) - 2 * (q[1]*q[1] + q[3]*q[3])
    /\ Poses!Norm2(q) * R[2][3] = 2 * (q[2]*q[3] - q[1]*q[4])
    /\ Poses!Norm2(q) * R[3][1] = 2 * (q[1]*q[3] - q[2]*q[4])
    /\ Poses!Norm2(q) * R[3][2] = 2 * (q[2]*q[3] + q[1]*q[4])
    /\ Poses!Norm2(q) * R[3][3] = Poses!Norm2(q) - 2 * (q[1]*q[1] + q[2]*q[2])

\* The norm of four integers is an integer.
LEMMA NormInt ==
    ASSUME NEW q, Four(q)
    PROVE  Poses!Norm2(q) \in Int
BY DEF Four, Poses!Norm2

\* An exact division.
LEMMA DivisionExact ==
    ASSUME NEW n \in Int, n > 0, NEW r \in Int, NEW a \in Int, n * r = a
    PROVE  a \div n = r
OBVIOUS

\* A quotient is an integer.
LEMMA DivisionInt ==
    ASSUME NEW n \in Int, n > 0, NEW a \in Int
    PROVE  a \div n \in Int
OBVIOUS

\* What quaternion_matrix enters before it divides is a matrix of integers.
LEMMA ScaledInt ==
    ASSUME NEW q, Four(q)
    PROVE  Entries(Poses!Scaled(q))
<1>1. Poses!Norm2(q) \in Int
  BY NormInt
<1> QED BY <1>1 DEF Four, Entries, Poses!Scaled

\* quaternion_matrix gives a matrix of integers.
LEMMA MatrixMat ==
    ASSUME NEW q, Four(q), Poses!Norm2(q) > 0
    PROVE  Poses!quaternion_matrix(q) \in Mat
<1> DEFINE m == Poses!Scaled(q)
           n == Poses!Norm2(q)
<1>1. Entries(m) /\ n \in Int /\ n > 0
  BY ScaledInt, NormInt
<1> HIDE DEF m, n
<1>2. /\ Poses!Divided(m[1], n) \in Vec /\ Poses!Divided(m[2], n) \in Vec
      /\ Poses!Divided(m[3], n) \in Vec
  BY <1>1, DivisionInt DEF Entries, Poses!Divided, Vec, Poses!Vectors
<1>3. <<Poses!Divided(m[1], n), Poses!Divided(m[2], n), Poses!Divided(m[3], n)>> \in Mat
  BY <1>2 DEF Mat
<1> QED BY <1>3 DEF m, n, Poses!Quotient, Poses!quaternion_matrix

\* An exact quaternion names its matrix, and what names a matrix is exact.
LEMMA ExactNames ==
    ASSUME NEW q, Poses!Exact(q)
    PROVE  Names(q, Poses!quaternion_matrix(q))
<1> DEFINE R == Poses!quaternion_matrix(q)
           n == Poses!Norm2(q)
<1>1. Four(q) /\ n > 0 /\ \A i, j \in 1 .. 3 : n * R[i][j] = Poses!Scaled(q)[i][j]
  BY DEF Poses!Exact, Poses!Axes, Four
<1>2. n \in Int /\ R \in Mat
  BY <1>1, NormInt, MatrixMat
<1> HIDE DEF R
<1>3. /\ n * R[1][1] = Poses!Scaled(q)[1][1] /\ n * R[1][2] = Poses!Scaled(q)[1][2]
      /\ n * R[1][3] = Poses!Scaled(q)[1][3] /\ n * R[2][1] = Poses!Scaled(q)[2][1]
      /\ n * R[2][2] = Poses!Scaled(q)[2][2] /\ n * R[2][3] = Poses!Scaled(q)[2][3]
      /\ n * R[3][1] = Poses!Scaled(q)[3][1] /\ n * R[3][2] = Poses!Scaled(q)[3][2]
      /\ n * R[3][3] = Poses!Scaled(q)[3][3]
  BY <1>1
<1>4. Names(q, R)
  BY <1>1, <1>2, <1>3 DEF Names, Poses!Scaled
<1> QED BY <1>4 DEF R

\* A quaternion that names a matrix is exact, and that is its matrix.
LEMMA NamesExact ==
    ASSUME NEW q, NEW R, Names(q, R)
    PROVE  Poses!quaternion_matrix(q) = R /\ Poses!Exact(q)
<1> DEFINE n == Poses!Norm2(q)
           m == Poses!Scaled(q)
           Q == Poses!quaternion_matrix(q)
<1>1. n \in Int /\ n > 0 /\ R \in Mat /\ Entries(R) /\ Entries(m)
  BY MatEntries, ScaledInt DEF Names
<1>2. /\ n * R[1][1] = m[1][1] /\ n * R[1][2] = m[1][2] /\ n * R[1][3] = m[1][3]
      /\ n * R[2][1] = m[2][1] /\ n * R[2][2] = m[2][2] /\ n * R[2][3] = m[2][3]
      /\ n * R[3][1] = m[3][1] /\ n * R[3][2] = m[3][2] /\ n * R[3][3] = m[3][3]
  BY DEF Names, Poses!Scaled
<1>3. Q = <<Poses!Divided(m[1], n), Poses!Divided(m[2], n), Poses!Divided(m[3], n)>>
  BY DEF Poses!Quotient, Poses!quaternion_matrix
<1> HIDE DEF n, m, Q
<1>4. /\ m[1][1] \div n = R[1][1] /\ m[1][2] \div n = R[1][2] /\ m[1][3] \div n = R[1][3]
      /\ m[2][1] \div n = R[2][1] /\ m[2][2] \div n = R[2][2] /\ m[2][3] \div n = R[2][3]
      /\ m[3][1] \div n = R[3][1] /\ m[3][2] \div n = R[3][2] /\ m[3][3] \div n = R[3][3]
  BY <1>1, <1>2, DivisionExact DEF Entries
<1>5. SameVec(Q[1], R[1]) /\ SameVec(Q[2], R[2]) /\ SameVec(Q[3], R[3])
  BY <1>3, <1>4 DEF SameVec, Poses!Divided
<1>6. Q \in Mat
  BY MatrixMat DEF Q, Names
<1>7. Q = R
  BY <1>1, <1>5, <1>6, MatSame
<1>8. \A i, j \in 1 .. 3 : n * R[i][j] = m[i][j]
  BY <1>2
<1>9. \A i \in 1 .. 4 : q[i] \in Int
  BY DEF Names, Four
<1> QED BY <1>1, <1>7, <1>8, <1>9 DEF n, m, Q, Poses!Exact, Poses!Axes

\* Quaternion products: norms multiply, and so do the matrices, entry by entry.
Product(x, y, z, w, a, b, c, d, e, f, g, h) ==
    /\ x = d*e + a*h + b*g - c*f
    /\ y = d*f - a*g + b*h + c*e
    /\ z = d*g + a*f - b*e + c*h
    /\ w = d*h - a*e - b*f - c*g

IsNorm(n, x, y, z, w) == n = x*x + y*y + z*z + w*w

\* Norms multiply: the identity of four squares.
LEMMA ProductNorm ==
    ASSUME NEW a \in Int, NEW b \in Int, NEW c \in Int, NEW d \in Int,
           NEW e \in Int, NEW f \in Int, NEW g \in Int, NEW h \in Int,
           NEW x, NEW y, NEW z, NEW w, Product(x, y, z, w, a, b, c, d, e, f, g, h),
           NEW n, IsNorm(n, a, b, c, d), NEW m, IsNorm(m, e, f, g, h)
    PROVE  IsNorm(n * m, x, y, z, w)
BY DEF Product, IsNorm

\* A sum of products, over a common norm.
LEMMA OverNorms ==
    ASSUME NEW n \in Int, NEW m \in Int,
           NEW r1 \in Int, NEW r2 \in Int, NEW r3 \in Int,
           NEW s1 \in Int, NEW s2 \in Int, NEW s3 \in Int
    PROVE  (n*m) * (r1*s1 + r2*s2 + r3*s3) = (n*r1)*(m*s1) + (n*r2)*(m*s2) + (n*r3)*(m*s3)
OBVIOUS

\* What names a matrix, in numbers.
Named(n, x, y, z, w, r11, r12, r13, r21, r22, r23, r31, r32, r33) ==
    /\ IsNorm(n, x, y, z, w) /\ n > 0
    /\ n*r11 = n - 2*(y*y + z*z)
    /\ n*r12 = 2*(x*y - z*w)
    /\ n*r13 = 2*(x*z + y*w)
    /\ n*r21 = 2*(x*y + z*w)
    /\ n*r22 = n - 2*(x*x + z*z)
    /\ n*r23 = 2*(y*z - x*w)
    /\ n*r31 = 2*(x*z - y*w)
    /\ n*r32 = 2*(y*z + x*w)
    /\ n*r33 = n - 2*(x*x + y*y)

IsMatrix(R, r11, r12, r13, r21, r22, r23, r31, r32, r33) ==
    /\ R[1][1] = r11 /\ R[1][2] = r12 /\ R[1][3] = r13
    /\ R[2][1] = r21 /\ R[2][2] = r22 /\ R[2][3] = r23
    /\ R[3][1] = r31 /\ R[3][2] = r32 /\ R[3][3] = r33

IsFour(q, x, y, z, w) == q[1] = x /\ q[2] = y /\ q[3] = z /\ q[4] = w

Numbers(q, R, n, x, y, z, w, r11, r12, r13, r21, r22, r23, r31, r32, r33) ==
    /\ IsFour(q, x, y, z, w) /\ IsMatrix(R, r11, r12, r13, r21, r22, r23, r31, r32, r33)
    /\ Named(n, x, y, z, w, r11, r12, r13, r21, r22, r23, r31, r32, r33)

\* A quaternion and its matrix, as numbers.
LEMMA NamesNamed ==
    ASSUME NEW q, NEW R, Names(q, R)
    PROVE  \E n, x, y, z, w \in Int, r11, r12, r13, r21, r22, r23, r31, r32, r33 \in Int :
             Numbers(q, R, n, x, y, z, w, r11, r12, r13, r21, r22, r23, r31, r32, r33)
<1>1. Entries(R) /\ Four(q) /\ Poses!Norm2(q) \in Int
  BY MatEntries DEF Names
<1>2. PICK x \in Int, y \in Int, z \in Int, w \in Int : IsFour(q, x, y, z, w)
  BY <1>1 DEF Four, IsFour
<1>3. PICK n \in Int : n = Poses!Norm2(q)
  BY <1>1
<1>4. PICK r11 \in Int, r12 \in Int, r13 \in Int,
           r21 \in Int, r22 \in Int, r23 \in Int,
           r31 \in Int, r32 \in Int, r33 \in Int :
          IsMatrix(R, r11, r12, r13, r21, r22, r23, r31, r32, r33)
  BY <1>1 DEF IsMatrix, Entries
<1>5. IsNorm(n, x, y, z, w) /\ n > 0
  BY <1>2, <1>3 DEF IsNorm, Poses!Norm2, Names, IsFour
<1>6. /\ n*r11 = n - 2*(y*y + z*z)
      /\ n*r12 = 2*(x*y - z*w)
      /\ n*r13 = 2*(x*z + y*w)
      /\ n*r21 = 2*(x*y + z*w)
      /\ n*r22 = n - 2*(x*x + z*z)
      /\ n*r23 = 2*(y*z - x*w)
      /\ n*r31 = 2*(x*z - y*w)
      /\ n*r32 = 2*(y*z + x*w)
      /\ n*r33 = n - 2*(x*x + y*y)
  BY <1>2, <1>3, <1>4 DEF Names, IsFour, IsMatrix
<1>7. Named(n, x, y, z, w, r11, r12, r13, r21, r22, r23, r31, r32, r33)
  BY <1>5, <1>6 DEF Named
<1> QED BY <1>2, <1>4, <1>7 DEF Numbers

\* And back from the numbers.
LEMMA NamedNames ==
    ASSUME NEW n \in Int, NEW x \in Int, NEW y \in Int, NEW z \in Int, NEW w \in Int,
           NEW r11 \in Int, NEW r12 \in Int, NEW r13 \in Int,
           NEW r21 \in Int, NEW r22 \in Int, NEW r23 \in Int,
           NEW r31 \in Int, NEW r32 \in Int, NEW r33 \in Int, NEW q, NEW R \in Mat,
           Numbers(q, R, n, x, y, z, w, r11, r12, r13, r21, r22, r23, r31, r32, r33)
    PROVE  Names(q, R)
<1>1. Four(q)
  BY DEF Four, IsFour, Numbers
<1>2. Poses!Norm2(q) = n /\ n > 0
  BY DEF Poses!Norm2, Named, IsNorm, IsFour, Numbers
<1>3. /\ n*r11 = n - 2*(y*y + z*z)
      /\ n*r12 = 2*(x*y - z*w)
      /\ n*r13 = 2*(x*z + y*w)
      /\ n*r21 = 2*(x*y + z*w)
      /\ n*r22 = n - 2*(x*x + z*z)
      /\ n*r23 = 2*(y*z - x*w)
      /\ n*r31 = 2*(x*z - y*w)
      /\ n*r32 = 2*(y*z + x*w)
      /\ n*r33 = n - 2*(x*x + y*y)
  BY DEF Named, Numbers
<1> QED BY <1>1, <1>2, <1>3 DEF Names, IsFour, IsMatrix, Numbers

\* The product of two quaternions names the product of their matrices.
LEMMA NamesProduct ==
    ASSUME NEW p, NEW q, NEW R, NEW S, Names(p, R), Names(q, S)
    PROVE  Names(Poses!multiply_quaternions(p, q), Poses!Rotate(R, S))
<1>1. PICK n, a, b, c, d \in Int, r11, r12, r13, r21, r22, r23, r31, r32, r33 \in Int :
        Numbers(p, R, n, a, b, c, d, r11, r12, r13, r21, r22, r23, r31, r32, r33)
  BY NamesNamed
<1>2. PICK m, e, f, g, h \in Int, s11, s12, s13, s21, s22, s23, s31, s32, s33 \in Int :
        Numbers(q, S, m, e, f, g, h, s11, s12, s13, s21, s22, s23, s31, s32, s33)
  BY NamesNamed
<1>3. PICK x \in Int, y \in Int, z \in Int, w \in Int :
        /\ x = d*e + a*h + b*g - c*f /\ y = d*f - a*g + b*h + c*e
        /\ z = d*g + a*f - b*e + c*h /\ w = d*h - a*e - b*f - c*g
  OBVIOUS
<1>4. Product(x, y, z, w, a, b, c, d, e, f, g, h)
  BY <1>3 DEF Product
<1>5. IsFour(Poses!multiply_quaternions(p, q), x, y, z, w)
  BY <1>1, <1>2, <1>3 DEF Poses!multiply_quaternions, IsFour, Numbers
<1>6. IsNorm(n, a, b, c, d) /\ IsNorm(m, e, f, g, h) /\ n > 0 /\ m > 0
  BY <1>1, <1>2 DEF Named, Numbers
<1>7. PICK k \in Int : k = n * m
  OBVIOUS
<1>8. IsNorm(k, x, y, z, w) /\ k > 0
  <2>1. IsNorm(n * m, x, y, z, w)
    BY <1>4, <1>6, ProductNorm
  <2>2. n * m > 0
    BY <1>6
  <2> QED BY <1>7, <2>1, <2>2
<1>9. PICK u11 \in Int, u12 \in Int, u13 \in Int,
           u21 \in Int, u22 \in Int, u23 \in Int,
           u31 \in Int, u32 \in Int, u33 \in Int :
        /\ u11 = n*r11 /\ u12 = n*r12 /\ u13 = n*r13
        /\ u21 = n*r21 /\ u22 = n*r22 /\ u23 = n*r23
        /\ u31 = n*r31 /\ u32 = n*r32 /\ u33 = n*r33
  OBVIOUS
<1>10. PICK v11 \in Int, v12 \in Int, v13 \in Int,
           v21 \in Int, v22 \in Int, v23 \in Int,
           v31 \in Int, v32 \in Int, v33 \in Int :
        /\ v11 = m*s11 /\ v12 = m*s12 /\ v13 = m*s13
        /\ v21 = m*s21 /\ v22 = m*s22 /\ v23 = m*s23
        /\ v31 = m*s31 /\ v32 = m*s32 /\ v33 = m*s33
  OBVIOUS
<1>11. PICK t11 \in Int, t12 \in Int, t13 \in Int,
            t21 \in Int, t22 \in Int, t23 \in Int,
            t31 \in Int, t32 \in Int, t33 \in Int :
        /\ t11 = r11*s11 + r12*s21 + r13*s31
        /\ t12 = r11*s12 + r12*s22 + r13*s32
        /\ t13 = r11*s13 + r12*s23 + r13*s33
        /\ t21 = r21*s11 + r22*s21 + r23*s31
        /\ t22 = r21*s12 + r22*s22 + r23*s32
        /\ t23 = r21*s13 + r22*s23 + r23*s33
        /\ t31 = r31*s11 + r32*s21 + r33*s31
        /\ t32 = r31*s12 + r32*s22 + r33*s32
        /\ t33 = r31*s13 + r32*s23 + r33*s33
  OBVIOUS
<1>12. /\ u11 = n - 2*(b*b + c*c)
       /\ u12 = 2*(a*b - c*d)
       /\ u13 = 2*(a*c + b*d)
       /\ u21 = 2*(a*b + c*d)
       /\ u22 = n - 2*(a*a + c*c)
       /\ u23 = 2*(b*c - a*d)
       /\ u31 = 2*(a*c - b*d)
       /\ u32 = 2*(b*c + a*d)
       /\ u33 = n - 2*(a*a + b*b)
  BY <1>1, <1>9 DEF Named, Numbers
<1>13. /\ v11 = m - 2*(f*f + g*g)
       /\ v12 = 2*(e*f - g*h)
       /\ v13 = 2*(e*g + f*h)
       /\ v21 = 2*(e*f + g*h)
       /\ v22 = m - 2*(e*e + g*g)
       /\ v23 = 2*(f*g - e*h)
       /\ v31 = 2*(e*g - f*h)
       /\ v32 = 2*(f*g + e*h)
       /\ v33 = m - 2*(e*e + f*f)
  BY <1>2, <1>10 DEF Named, Numbers
<1>14. /\ k*t11 = u11*v11 + u12*v21 + u13*v31
       /\ k*t12 = u11*v12 + u12*v22 + u13*v32
       /\ k*t13 = u11*v13 + u12*v23 + u13*v33
       /\ k*t21 = u21*v11 + u22*v21 + u23*v31
       /\ k*t22 = u21*v12 + u22*v22 + u23*v32
       /\ k*t23 = u21*v13 + u22*v23 + u23*v33
       /\ k*t31 = u31*v11 + u32*v21 + u33*v31
       /\ k*t32 = u31*v12 + u32*v22 + u33*v32
       /\ k*t33 = u31*v13 + u32*v23 + u33*v33
  <2>1. /\ (n*m) * (r11*s11 + r12*s21 + r13*s31) = (n*r11)*(m*s11) + (n*r12)*(m*s21) + (n*r13)*(m*s31)
       /\ (n*m) * (r11*s12 + r12*s22 + r13*s32) = (n*r11)*(m*s12) + (n*r12)*(m*s22) + (n*r13)*(m*s32)
       /\ (n*m) * (r11*s13 + r12*s23 + r13*s33) = (n*r11)*(m*s13) + (n*r12)*(m*s23) + (n*r13)*(m*s33)
       /\ (n*m) * (r21*s11 + r22*s21 + r23*s31) = (n*r21)*(m*s11) + (n*r22)*(m*s21) + (n*r23)*(m*s31)
       /\ (n*m) * (r21*s12 + r22*s22 + r23*s32) = (n*r21)*(m*s12) + (n*r22)*(m*s22) + (n*r23)*(m*s32)
       /\ (n*m) * (r21*s13 + r22*s23 + r23*s33) = (n*r21)*(m*s13) + (n*r22)*(m*s23) + (n*r23)*(m*s33)
       /\ (n*m) * (r31*s11 + r32*s21 + r33*s31) = (n*r31)*(m*s11) + (n*r32)*(m*s21) + (n*r33)*(m*s31)
       /\ (n*m) * (r31*s12 + r32*s22 + r33*s32) = (n*r31)*(m*s12) + (n*r32)*(m*s22) + (n*r33)*(m*s32)
       /\ (n*m) * (r31*s13 + r32*s23 + r33*s33) = (n*r31)*(m*s13) + (n*r32)*(m*s23) + (n*r33)*(m*s33)
    BY OverNorms
  <2> QED BY <1>7, <1>9, <1>10, <1>11, <2>1
<1>15. /\ k*t11 = k - 2*(y*y + z*z)
       /\ k*t12 = 2*(x*y - z*w)
       /\ k*t13 = 2*(x*z + y*w)
       /\ k*t21 = 2*(x*y + z*w)
       /\ k*t22 = k - 2*(x*x + z*z)
       /\ k*t23 = 2*(y*z - x*w)
       /\ k*t31 = 2*(x*z - y*w)
       /\ k*t32 = 2*(y*z + x*w)
       /\ k*t33 = k - 2*(x*x + y*y)
  <2>1. /\ k*t11 = k - 2*(y*y + z*z)
        /\ k*t12 = 2*(x*y - z*w)
        /\ k*t13 = 2*(x*z + y*w)
    BY <1>3, <1>6, <1>8, <1>12, <1>13, <1>14 DEF IsNorm
  <2>2. /\ k*t21 = 2*(x*y + z*w)
        /\ k*t22 = k - 2*(x*x + z*z)
        /\ k*t23 = 2*(y*z - x*w)
    BY <1>3, <1>6, <1>8, <1>12, <1>13, <1>14 DEF IsNorm
  <2>3. /\ k*t31 = 2*(x*z - y*w)
        /\ k*t32 = 2*(y*z + x*w)
        /\ k*t33 = k - 2*(x*x + y*y)
    BY <1>3, <1>6, <1>8, <1>12, <1>13, <1>14 DEF IsNorm
  <2> QED BY <2>1, <2>2, <2>3
<1>16. Named(k, x, y, z, w, t11, t12, t13, t21, t22, t23, t31, t32, t33)
  BY <1>8, <1>15 DEF Named
<1>17. IsMatrix(Poses!Rotate(R, S), t11, t12, t13, t21, t22, t23, t31, t32, t33)
  <2>1. \A i, j \in 1 .. 3 : Poses!Rotate(R, S)[i][j] = R[i][1] * S[1][j] + R[i][2] * S[2][j] + R[i][3] * S[3][j]
    BY RotateAt DEF Poses!Dot, Poses!Column
  <2> QED BY <1>1, <1>2, <1>11, <2>1 DEF IsMatrix, Numbers
<1>18. R \in Mat /\ S \in Mat /\ Poses!Rotate(R, S) \in Mat
  BY RotateMat DEF Names
<1>19. Numbers(Poses!multiply_quaternions(p, q), Poses!Rotate(R, S), k, x, y, z, w,
              t11, t12, t13, t21, t22, t23, t31, t32, t33)
  BY <1>5, <1>16, <1>17 DEF Numbers
<1> QED BY <1>18, <1>19, NamedNames

\* The conjugate names the transpose.
LEMMA NamesConjugate ==
    ASSUME NEW q, NEW R, Names(q, R)
    PROVE  Names(Poses!Conjugate(q), Poses!Transpose(R))
<1>1. PICK n, x, y, z, w \in Int, r11, r12, r13, r21, r22, r23, r31, r32, r33 \in Int :
        Numbers(q, R, n, x, y, z, w, r11, r12, r13, r21, r22, r23, r31, r32, r33)
  BY NamesNamed
<1>2. PICK e \in Int, f \in Int, g \in Int : e = -x /\ f = -y /\ g = -z
  OBVIOUS
<1>3. /\ e*e = x*x /\ f*f = y*y /\ g*g = z*z /\ e*f = x*y /\ e*g = x*z /\ f*g = y*z
      /\ e*w = -(x*w) /\ f*w = -(y*w) /\ g*w = -(z*w)
  BY <1>2
<1>4. Named(n, e, f, g, w, r11, r21, r31, r12, r22, r32, r13, r23, r33)
  <2>1. IsNorm(n, e, f, g, w) /\ n > 0
    BY <1>1, <1>3 DEF Numbers, Named, IsNorm
  <2>2. /\ n*r11 = n - 2*(f*f + g*g)
        /\ n*r21 = 2*(e*f - g*w)
        /\ n*r31 = 2*(e*g + f*w)
        /\ n*r12 = 2*(e*f + g*w)
        /\ n*r22 = n - 2*(e*e + g*g)
        /\ n*r32 = 2*(f*g - e*w)
        /\ n*r13 = 2*(e*g - f*w)
        /\ n*r23 = 2*(f*g + e*w)
        /\ n*r33 = n - 2*(e*e + f*f)
    BY <1>1, <1>3 DEF Numbers, Named
  <2> QED BY <2>1, <2>2 DEF Named
<1>5. IsFour(Poses!Conjugate(q), e, f, g, w)
  BY <1>1, <1>2 DEF Numbers, IsFour, Poses!Conjugate
<1>6. IsMatrix(Poses!Transpose(R), r11, r21, r31, r12, r22, r32, r13, r23, r33)
  BY <1>1, TransposeAt DEF Numbers, IsMatrix
<1>7. Poses!Transpose(R) \in Mat
  BY TransposeMat DEF Names
<1>8. Numbers(Poses!Conjugate(q), Poses!Transpose(R), n, e, f, g, w,
              r11, r21, r31, r12, r22, r32, r13, r23, r33)
  BY <1>4, <1>5, <1>6 DEF Numbers
<1> QED BY <1>7, <1>8, NamedNames

\* What a quaternion names is orthogonal.
LEMMA Cancel ==
    ASSUME NEW n \in Int, n > 0, NEW s \in Int, NEW t \in Int, n * s = n * t
    PROVE  s = t
OBVIOUS

\* A positive factor cancels from both sides, twice.
LEMMA CancelTwice ==
    ASSUME NEW n \in Int, n > 0, NEW s \in Int, NEW t \in Int, n * (n * s) = n * (n * t)
    PROVE  s = t
<1>1. n * s \in Int /\ n * t \in Int
  OBVIOUS
<1>2. n * s = n * t
  BY <1>1, Cancel
<1> QED BY <1>2, Cancel

\* The identity is a matrix.
LEMMA IdentityMat == Poses!Identity \in Mat
BY DEF Poses!Identity, Mat, Vec, Poses!Vectors

\* The transpose of what a quaternion names is its inverse, from the left.
LEMMA NamesOrthogonal ==
    ASSUME NEW q, NEW R, Names(q, R)
    PROVE  Poses!Rotate(Poses!Transpose(R), R) = Poses!Identity
<1>1. PICK n, x, y, z, w \in Int, r11, r12, r13, r21, r22, r23, r31, r32, r33 \in Int :
        Numbers(q, R, n, x, y, z, w, r11, r12, r13, r21, r22, r23, r31, r32, r33)
  BY NamesNamed
<1>2. n > 0 /\ n = x*x + y*y + z*z + w*w
  BY <1>1 DEF Numbers, Named, IsNorm
<1>3. PICK u11 \in Int, u12 \in Int, u13 \in Int,
           u21 \in Int, u22 \in Int, u23 \in Int,
           u31 \in Int, u32 \in Int, u33 \in Int :
        /\ u11 = n*r11 /\ u12 = n*r12 /\ u13 = n*r13
        /\ u21 = n*r21 /\ u22 = n*r22 /\ u23 = n*r23
        /\ u31 = n*r31 /\ u32 = n*r32 /\ u33 = n*r33
  OBVIOUS
<1>4. /\ u11 = n - 2*(y*y + z*z)
      /\ u12 = 2*(x*y - z*w)
      /\ u13 = 2*(x*z + y*w)
      /\ u21 = 2*(x*y + z*w)
      /\ u22 = n - 2*(x*x + z*z)
      /\ u23 = 2*(y*z - x*w)
      /\ u31 = 2*(x*z - y*w)
      /\ u32 = 2*(y*z + x*w)
      /\ u33 = n - 2*(x*x + y*y)
  BY <1>1, <1>3 DEF Numbers, Named
<1>5. PICK t11 \in Int, t12 \in Int, t13 \in Int,
           t21 \in Int, t22 \in Int, t23 \in Int,
           t31 \in Int, t32 \in Int, t33 \in Int :
        /\ t11 = r11*r11 + r21*r21 + r31*r31
        /\ t12 = r11*r12 + r21*r22 + r31*r32
        /\ t13 = r11*r13 + r21*r23 + r31*r33
        /\ t21 = r12*r11 + r22*r21 + r32*r31
        /\ t22 = r12*r12 + r22*r22 + r32*r32
        /\ t23 = r12*r13 + r22*r23 + r32*r33
        /\ t31 = r13*r11 + r23*r21 + r33*r31
        /\ t32 = r13*r12 + r23*r22 + r33*r32
        /\ t33 = r13*r13 + r23*r23 + r33*r33
  OBVIOUS
<1>6. /\ n*(n*t11) = u11*u11 + u21*u21 + u31*u31
      /\ n*(n*t12) = u11*u12 + u21*u22 + u31*u32
      /\ n*(n*t13) = u11*u13 + u21*u23 + u31*u33
      /\ n*(n*t21) = u12*u11 + u22*u21 + u32*u31
      /\ n*(n*t22) = u12*u12 + u22*u22 + u32*u32
      /\ n*(n*t23) = u12*u13 + u22*u23 + u32*u33
      /\ n*(n*t31) = u13*u11 + u23*u21 + u33*u31
      /\ n*(n*t32) = u13*u12 + u23*u22 + u33*u32
      /\ n*(n*t33) = u13*u13 + u23*u23 + u33*u33
  BY <1>3, <1>5
<1>7. /\ u11*u11 + u21*u21 + u31*u31 = n*(n*1)
      /\ u11*u12 + u21*u22 + u31*u32 = n*(n*0)
      /\ u11*u13 + u21*u23 + u31*u33 = n*(n*0)
      /\ u12*u11 + u22*u21 + u32*u31 = n*(n*0)
      /\ u12*u12 + u22*u22 + u32*u32 = n*(n*1)
      /\ u12*u13 + u22*u23 + u32*u33 = n*(n*0)
      /\ u13*u11 + u23*u21 + u33*u31 = n*(n*0)
      /\ u13*u12 + u23*u22 + u33*u32 = n*(n*0)
      /\ u13*u13 + u23*u23 + u33*u33 = n*(n*1)
  BY <1>2, <1>4
<1>8. /\ t11 = 1 /\ t12 = 0 /\ t13 = 0
      /\ t21 = 0 /\ t22 = 1 /\ t23 = 0
      /\ t31 = 0 /\ t32 = 0 /\ t33 = 1
  <2>1. /\ n*(n*t11) = n*(n*1)
        /\ n*(n*t12) = n*(n*0)
        /\ n*(n*t13) = n*(n*0)
        /\ n*(n*t21) = n*(n*0)
        /\ n*(n*t22) = n*(n*1)
        /\ n*(n*t23) = n*(n*0)
        /\ n*(n*t31) = n*(n*0)
        /\ n*(n*t32) = n*(n*0)
        /\ n*(n*t33) = n*(n*1)
    BY <1>6, <1>7
  <2> QED BY <1>2, <2>1, CancelTwice
<1> DEFINE T == Poses!Transpose(R)
<1>9. R \in Mat /\ T \in Mat /\ Poses!Rotate(T, R) \in Mat
  BY TransposeMat, RotateMat DEF Names
<1>10. \A i, j \in 1 .. 3 : Poses!Rotate(T, R)[i][j] = R[1][i] * R[1][j] + R[2][i] * R[2][j] + R[3][i] * R[3][j]
  BY RotateAt, TransposeAt DEF Poses!Dot, Poses!Column
<1>11. IsMatrix(Poses!Rotate(T, R), t11, t12, t13, t21, t22, t23, t31, t32, t33)
  BY <1>1, <1>5, <1>10 DEF Numbers, IsMatrix
<1> HIDE DEF T
<1> DEFINE O == Poses!Rotate(T, R)
<1>12. SameVec(O[1], Poses!Identity[1]) /\ SameVec(O[2], Poses!Identity[2]) /\ SameVec(O[3], Poses!Identity[3])
  BY <1>8, <1>11 DEF IsMatrix, SameVec, Poses!Identity
<1> QED BY <1>9, <1>12, IdentityMat, MatSame DEF T

\* Transposed twice is not transposed.
LEMMA TransposeTranspose ==
    ASSUME NEW R \in Mat
    PROVE  Poses!Transpose(Poses!Transpose(R)) = R
<1> DEFINE T == Poses!Transpose(Poses!Transpose(R))
<1>1. T \in Mat
  BY TransposeMat
<1>2. \A i, j \in 1 .. 3 : T[i][j] = R[i][j]
  BY TransposeAt
<1>3. SameVec(T[1], R[1]) /\ SameVec(T[2], R[2]) /\ SameVec(T[3], R[3])
  BY <1>2 DEF SameVec
<1> QED BY <1>1, <1>3, MatSame

\* And from the right.
LEMMA NamesOrthogonalToo ==
    ASSUME NEW q, NEW R, Names(q, R)
    PROVE  Poses!Rotate(R, Poses!Transpose(R)) = Poses!Identity
<1> DEFINE T == Poses!Transpose(R)
<1>1. Names(Poses!Conjugate(q), T)
  BY NamesConjugate
<1>2. Poses!Rotate(Poses!Transpose(T), T) = Poses!Identity
  BY <1>1, NamesOrthogonal
<1>3. Poses!Transpose(T) = R
  BY TransposeTranspose DEF Names
<1> QED BY <1>2, <1>3

\* A quaternion and its negative name the same matrix.
LEMMA NegatedNamed ==
    ASSUME NEW n \in Int, NEW x \in Int, NEW y \in Int, NEW z \in Int, NEW w \in Int,
           NEW r11 \in Int, NEW r12 \in Int, NEW r13 \in Int,
           NEW r21 \in Int, NEW r22 \in Int, NEW r23 \in Int,
           NEW r31 \in Int, NEW r32 \in Int, NEW r33 \in Int,
           Named(n, x, y, z, w, r11, r12, r13, r21, r22, r23, r31, r32, r33)
    PROVE  Named(n, -x, -y, -z, -w, r11, r12, r13, r21, r22, r23, r31, r32, r33)
BY DEF Named, IsNorm

\* The branch of matrix_quaternion when the trace is not positive is the one of a
\* diagonal entry no other exceeds.
LEMMA LargestIs ==
    ASSUME NEW R \in Mat
    PROVE  /\ Poses!Largest(R) \in 1 .. 3
           /\ \A j \in 1 .. 3 : R[j][j] <= R[Poses!Largest(R)][Poses!Largest(R)]
<1>1. R[1][1] \in Int /\ R[2][2] \in Int /\ R[3][3] \in Int
  BY MatEntries DEF Entries
<1>2. \E i \in 1 .. 3 : /\ \A j \in 1 .. 3 : R[j][j] <= R[i][i]
                        /\ \A j \in 1 .. i - 1 : R[j][j] < R[i][i]
  <2>1. CASE R[2][2] <= R[1][1] /\ R[3][3] <= R[1][1]
    <3>1. \A j \in 1 .. 3 : R[j][j] <= R[1][1]
      BY <1>1, <2>1
    <3>2. \A j \in 1 .. 1 - 1 : R[j][j] < R[1][1]
      OBVIOUS
    <3> QED BY <3>1, <3>2
  <2>2. CASE R[1][1] < R[2][2] /\ R[3][3] <= R[2][2]
    <3>1. \A j \in 1 .. 3 : R[j][j] <= R[2][2]
      BY <1>1, <2>2
    <3>2. \A j \in 1 .. 2 - 1 : R[j][j] < R[2][2]
      BY <2>2
    <3> QED BY <3>1, <3>2
  <2>3. CASE R[1][1] < R[3][3] /\ R[2][2] < R[3][3]
    <3>1. \A j \in 1 .. 3 : R[j][j] <= R[3][3]
      BY <1>1, <2>3
    <3>2. \A j \in 1 .. 3 - 1 : R[j][j] < R[3][3]
      BY <2>3
    <3> QED BY <3>1, <3>2
  <2> QED BY <1>1, <2>1, <2>2, <2>3
<1> QED BY <1>2 DEF Poses!Largest, Poses!Axes

\* What a branch gives, before and after the sign of w is settled.
Signed(q) == IF q[4] < 0 THEN <<-q[1], -q[2], -q[3], -q[4]>> ELSE q

\* So does the quaternion matrix_quaternion returns, once the sign of w is settled.
LEMMA SignedNames ==
    ASSUME NEW n \in Int, NEW x \in Int, NEW y \in Int, NEW z \in Int, NEW w \in Int,
           NEW r11 \in Int, NEW r12 \in Int, NEW r13 \in Int,
           NEW r21 \in Int, NEW r22 \in Int, NEW r23 \in Int,
           NEW r31 \in Int, NEW r32 \in Int, NEW r33 \in Int, NEW q, NEW R \in Mat,
           Numbers(q, R, n, x, y, z, w, r11, r12, r13, r21, r22, r23, r31, r32, r33)
    PROVE  Names(Signed(q), R)
<1>1. CASE w < 0
  <2>1. IsFour(Signed(q), -x, -y, -z, -w)
    BY <1>1 DEF Signed, Numbers, IsFour
  <2>2. PICK a \in Int, b \in Int, c \in Int, d \in Int : a = -x /\ b = -y /\ c = -z /\ d = -w
    OBVIOUS
  <2>3. Named(n, -x, -y, -z, -w, r11, r12, r13, r21, r22, r23, r31, r32, r33)
    BY NegatedNamed DEF Numbers
  <2>4. Numbers(Signed(q), R, n, a, b, c, d, r11, r12, r13, r21, r22, r23, r31, r32, r33)
    BY <2>1, <2>2, <2>3 DEF Numbers
  <2> QED BY <2>4, NamedNames
<1>2. CASE ~(w < 0)
  <2>1. Signed(q) = q
    BY <1>2 DEF Signed, Numbers, IsFour
  <2> QED BY <2>1, NamedNames
<1> QED BY <1>1, <1>2

\* A multiple of a quaternion names the same matrix.
Multiple(n, s, x, y, z, w, e, f, g, h) ==
    /\ n > 0 /\ s # 0
    /\ n*e = s*x /\ n*f = s*y /\ n*g = s*z /\ n*h = s*w

Scales(n, k, a, b) == k*a = n*(n*b)

Carried(n, m, k, a, b, c, d) ==
    /\ k*(2*(a + b)) = n*(n*(2*(c + d))) /\ k*(2*(a - b)) = n*(n*(2*(c - d)))
    /\ k*(n - 2*(a + b)) = n*(n*(m - 2*(c + d)))

\* Sums and differences of products scale as the products do.
LEMMA Carry ==
    ASSUME NEW n \in Int, NEW m \in Int, NEW k \in Int, n*(n*m) = k*n,
           NEW a \in Int, NEW b \in Int, NEW c \in Int, NEW d \in Int,
           Scales(n, k, a, c), Scales(n, k, b, d)
    PROVE  Carried(n, m, k, a, b, c, d)
<1>1. /\ k*(2*(a + b)) = 2*(k*a) + 2*(k*b) /\ k*(2*(a - b)) = 2*(k*a) - 2*(k*b)
      /\ k*(n - 2*(a + b)) = k*n - 2*(k*a) - 2*(k*b)
  OBVIOUS
<1>2. /\ n*(n*(2*(c + d))) = 2*(n*(n*c)) + 2*(n*(n*d))
      /\ n*(n*(2*(c - d))) = 2*(n*(n*c)) - 2*(n*(n*d))
      /\ n*(n*(m - 2*(c + d))) = n*(n*m) - 2*(n*(n*c)) - 2*(n*(n*d))
  OBVIOUS
<1> QED BY <1>1, <1>2 DEF Scales, Carried

\* A factor moves through a product.
LEMMA Through ==
    ASSUME NEW n \in Int, NEW m \in Int, NEW k \in Int, n*m = k, NEW r \in Int
    PROVE  n*(n*(m*r)) = k*(n*r)
OBVIOUS

\* A multiple of a quaternion names the matrix the quaternion names.
LEMMA BranchNames ==
    ASSUME NEW n \in Int, NEW x \in Int, NEW y \in Int, NEW z \in Int, NEW w \in Int,
           NEW r11 \in Int, NEW r12 \in Int, NEW r13 \in Int,
           NEW r21 \in Int, NEW r22 \in Int, NEW r23 \in Int,
           NEW r31 \in Int, NEW r32 \in Int, NEW r33 \in Int, NEW q, NEW R \in Mat,
           Numbers(q, R, n, x, y, z, w, r11, r12, r13, r21, r22, r23, r31, r32, r33),
           NEW s \in Int, NEW e \in Int, NEW f \in Int, NEW g \in Int, NEW h \in Int,
           Multiple(n, s, x, y, z, w, e, f, g, h), NEW p, IsFour(p, e, f, g, h)
    PROVE  Names(Signed(p), R)
<1>1. n > 0 /\ s # 0 /\ n = x*x + y*y + z*z + w*w
  BY DEF Numbers, Named, IsNorm, Multiple
<1>2. n*e = s*x /\ n*f = s*y /\ n*g = s*z /\ n*h = s*w
  BY DEF Multiple
<1>3. PICK m \in Int : m = e*e + f*f + g*g + h*h
  OBVIOUS
<1>4. PICK k \in Int : k = s*s /\ k > 0
  BY <1>1
<1>5. /\ n*(n*(e*e)) = k*(x*x)
      /\ n*(n*(e*f)) = k*(x*y)
      /\ n*(n*(e*g)) = k*(x*z)
      /\ n*(n*(e*h)) = k*(x*w)
      /\ n*(n*(f*f)) = k*(y*y)
      /\ n*(n*(f*g)) = k*(y*z)
      /\ n*(n*(f*h)) = k*(y*w)
      /\ n*(n*(g*g)) = k*(z*z)
      /\ n*(n*(g*h)) = k*(z*w)
      /\ n*(n*(h*h)) = k*(w*w)
  <2>1. /\ (n*e)*(n*e) = (s*x)*(s*x)
        /\ (n*e)*(n*f) = (s*x)*(s*y)
        /\ (n*e)*(n*g) = (s*x)*(s*z)
        /\ (n*e)*(n*h) = (s*x)*(s*w)
        /\ (n*f)*(n*f) = (s*y)*(s*y)
        /\ (n*f)*(n*g) = (s*y)*(s*z)
        /\ (n*f)*(n*h) = (s*y)*(s*w)
        /\ (n*g)*(n*g) = (s*z)*(s*z)
        /\ (n*g)*(n*h) = (s*z)*(s*w)
        /\ (n*h)*(n*h) = (s*w)*(s*w)
    BY <1>2
  <2> QED BY <1>4, <2>1
<1>6. n*(n*m) = k*n
  <2>1. n*(n*m) = n*(n*(e*e)) + n*(n*(f*f)) + n*(n*(g*g)) + n*(n*(h*h))
    BY <1>3
  <2>2. n*(n*m) = k*(x*x) + k*(y*y) + k*(z*z) + k*(w*w)
    BY <1>5, <2>1
  <2>3. n*(n*m) = k*(x*x + y*y + z*z + w*w)
    BY <2>2
  <2> QED BY <1>1, <2>3
<1>7. n*m = k
  <2>1. n*m \in Int /\ n*(n*m) = n*k
    BY <1>6
  <2> QED BY <1>1, <2>1, Cancel
<1>8. m > 0
  BY <1>1, <1>4, <1>7
<1>9. /\ n*r11 = n - 2*(y*y + z*z)
      /\ n*r12 = 2*(x*y - z*w)
      /\ n*r13 = 2*(x*z + y*w)
      /\ n*r21 = 2*(x*y + z*w)
      /\ n*r22 = n - 2*(x*x + z*z)
      /\ n*r23 = 2*(y*z - x*w)
      /\ n*r31 = 2*(x*z - y*w)
      /\ n*r32 = 2*(y*z + x*w)
      /\ n*r33 = n - 2*(x*x + y*y)
  BY DEF Numbers, Named
<1>10. /\ n*(n*(m*r11)) = n*(n*(m - 2*(f*f + g*g)))
       /\ n*(n*(m*r12)) = n*(n*(2*(e*f - g*h)))
       /\ n*(n*(m*r13)) = n*(n*(2*(e*g + f*h)))
       /\ n*(n*(m*r21)) = n*(n*(2*(e*f + g*h)))
       /\ n*(n*(m*r22)) = n*(n*(m - 2*(e*e + g*g)))
       /\ n*(n*(m*r23)) = n*(n*(2*(f*g - e*h)))
       /\ n*(n*(m*r31)) = n*(n*(2*(e*g - f*h)))
       /\ n*(n*(m*r32)) = n*(n*(2*(f*g + e*h)))
       /\ n*(n*(m*r33)) = n*(n*(m - 2*(e*e + f*f)))
  <2>1. /\ n*(n*(m*r11)) = k*(n*r11)
        /\ n*(n*(m*r12)) = k*(n*r12)
        /\ n*(n*(m*r13)) = k*(n*r13)
        /\ n*(n*(m*r21)) = k*(n*r21)
        /\ n*(n*(m*r22)) = k*(n*r22)
        /\ n*(n*(m*r23)) = k*(n*r23)
        /\ n*(n*(m*r31)) = k*(n*r31)
        /\ n*(n*(m*r32)) = k*(n*r32)
        /\ n*(n*(m*r33)) = k*(n*r33)
    BY <1>7, Through
  <2>2. /\ k*(n*r11) = k*(n - 2*(y*y + z*z))
        /\ k*(n*r12) = k*(2*(x*y - z*w))
        /\ k*(n*r13) = k*(2*(x*z + y*w))
        /\ k*(n*r21) = k*(2*(x*y + z*w))
        /\ k*(n*r22) = k*(n - 2*(x*x + z*z))
        /\ k*(n*r23) = k*(2*(y*z - x*w))
        /\ k*(n*r31) = k*(2*(x*z - y*w))
        /\ k*(n*r32) = k*(2*(y*z + x*w))
        /\ k*(n*r33) = k*(n - 2*(x*x + y*y))
    BY <1>9
  <2>3. /\ k*(n - 2*(y*y + z*z)) = n*(n*(m - 2*(f*f + g*g)))
        /\ k*(2*(x*y - z*w)) = n*(n*(2*(e*f - g*h)))
        /\ k*(2*(x*z + y*w)) = n*(n*(2*(e*g + f*h)))
        /\ k*(2*(x*y + z*w)) = n*(n*(2*(e*f + g*h)))
        /\ k*(n - 2*(x*x + z*z)) = n*(n*(m - 2*(e*e + g*g)))
        /\ k*(2*(y*z - x*w)) = n*(n*(2*(f*g - e*h)))
        /\ k*(2*(x*z - y*w)) = n*(n*(2*(e*g - f*h)))
        /\ k*(2*(y*z + x*w)) = n*(n*(2*(f*g + e*h)))
        /\ k*(n - 2*(x*x + y*y)) = n*(n*(m - 2*(e*e + f*f)))
    <3>1. /\ Scales(n, k, x*x, e*e)
          /\ Scales(n, k, x*y, e*f)
          /\ Scales(n, k, x*z, e*g)
          /\ Scales(n, k, x*w, e*h)
          /\ Scales(n, k, y*y, f*f)
          /\ Scales(n, k, y*z, f*g)
          /\ Scales(n, k, y*w, f*h)
          /\ Scales(n, k, z*z, g*g)
          /\ Scales(n, k, z*w, g*h)
          /\ Scales(n, k, w*w, h*h)
      BY <1>5 DEF Scales
    <3>2. PICK xx \in Int, xy \in Int, xz \in Int, xw \in Int, yy \in Int,
               yz \in Int, yw \in Int, zz \in Int, zw \in Int, ww \in Int,
               ee \in Int, ef \in Int, eg \in Int, eh \in Int, ff \in Int,
               fg \in Int, fh \in Int, gg \in Int, gh \in Int, hh \in Int :
            /\ xx = x*x /\ ee = e*e
            /\ xy = x*y /\ ef = e*f
            /\ xz = x*z /\ eg = e*g
            /\ xw = x*w /\ eh = e*h
            /\ yy = y*y /\ ff = f*f
            /\ yz = y*z /\ fg = f*g
            /\ yw = y*w /\ fh = f*h
            /\ zz = z*z /\ gg = g*g
            /\ zw = z*w /\ gh = g*h
            /\ ww = w*w /\ hh = h*h
      OBVIOUS
    <3>3. /\ Scales(n, k, xx, ee)
          /\ Scales(n, k, xy, ef)
          /\ Scales(n, k, xz, eg)
          /\ Scales(n, k, xw, eh)
          /\ Scales(n, k, yy, ff)
          /\ Scales(n, k, yz, fg)
          /\ Scales(n, k, yw, fh)
          /\ Scales(n, k, zz, gg)
          /\ Scales(n, k, zw, gh)
          /\ Scales(n, k, ww, hh)
      BY <3>1, <3>2
    <3>4. /\ Carried(n, m, k, yy, zz, ff, gg)
          /\ Carried(n, m, k, xx, zz, ee, gg)
          /\ Carried(n, m, k, xx, yy, ee, ff)
          /\ Carried(n, m, k, xy, zw, ef, gh)
          /\ Carried(n, m, k, xz, yw, eg, fh)
          /\ Carried(n, m, k, yz, xw, fg, eh)
      BY <1>6, <3>3, Carry
    <3>5. /\ Carried(n, m, k, y*y, z*z, f*f, g*g)
          /\ Carried(n, m, k, x*x, z*z, e*e, g*g)
          /\ Carried(n, m, k, x*x, y*y, e*e, f*f)
          /\ Carried(n, m, k, x*y, z*w, e*f, g*h)
          /\ Carried(n, m, k, x*z, y*w, e*g, f*h)
          /\ Carried(n, m, k, y*z, x*w, f*g, e*h)
      BY <3>2, <3>4
    <3> QED BY <3>5 DEF Carried
  <2> QED BY <2>1, <2>2, <2>3
<1>11. /\ m*r11 = m - 2*(f*f + g*g)
       /\ m*r12 = 2*(e*f - g*h)
       /\ m*r13 = 2*(e*g + f*h)
       /\ m*r21 = 2*(e*f + g*h)
       /\ m*r22 = m - 2*(e*e + g*g)
       /\ m*r23 = 2*(f*g - e*h)
       /\ m*r31 = 2*(e*g - f*h)
       /\ m*r32 = 2*(f*g + e*h)
       /\ m*r33 = m - 2*(e*e + f*f)
  <2>1. /\ m*r11 \in Int /\ m - 2*(f*f + g*g) \in Int
        /\ m*r12 \in Int /\ 2*(e*f - g*h) \in Int
        /\ m*r13 \in Int /\ 2*(e*g + f*h) \in Int
        /\ m*r21 \in Int /\ 2*(e*f + g*h) \in Int
        /\ m*r22 \in Int /\ m - 2*(e*e + g*g) \in Int
        /\ m*r23 \in Int /\ 2*(f*g - e*h) \in Int
        /\ m*r31 \in Int /\ 2*(e*g - f*h) \in Int
        /\ m*r32 \in Int /\ 2*(f*g + e*h) \in Int
        /\ m*r33 \in Int /\ m - 2*(e*e + f*f) \in Int
    OBVIOUS
  <2> QED BY <1>1, <1>10, <2>1, CancelTwice
<1>12. Named(m, e, f, g, h, r11, r12, r13, r21, r22, r23, r31, r32, r33)
  BY <1>3, <1>8, <1>11 DEF Named, IsNorm
<1>13. Numbers(p, R, m, e, f, g, h, r11, r12, r13, r21, r22, r23, r31, r32, r33)
  BY <1>12 DEF Numbers
<1> QED BY <1>13, SignedNames

\* matrix_quaternion gives back a quaternion of the matrix, by whichever branch.
LEMMA NamesBack ==
    ASSUME NEW q, NEW R, Names(q, R)
    PROVE  Names(Poses!matrix_quaternion(R), R)
<1>1. PICK n, x, y, z, w \in Int, r11, r12, r13, r21, r22, r23, r31, r32, r33 \in Int :
        Numbers(q, R, n, x, y, z, w, r11, r12, r13, r21, r22, r23, r31, r32, r33)
  BY NamesNamed
<1>2. R \in Mat
  BY DEF Names
<1>3. IsMatrix(R, r11, r12, r13, r21, r22, r23, r31, r32, r33)
  BY <1>1 DEF Numbers
<1>4. n > 0 /\ n = x*x + y*y + z*z + w*w
  BY <1>1 DEF Numbers, Named, IsNorm
<1>5. /\ n*r11 = n - 2*(y*y + z*z) /\ n*r12 = 2*(x*y - z*w) /\ n*r13 = 2*(x*z + y*w)
      /\ n*r21 = 2*(x*y + z*w) /\ n*r22 = n - 2*(x*x + z*z) /\ n*r23 = 2*(y*z - x*w)
      /\ n*r31 = 2*(x*z - y*w) /\ n*r32 = 2*(y*z + x*w) /\ n*r33 = n - 2*(x*x + y*y)
  BY <1>1 DEF Numbers, Named
<1>6. PICK t \in Int : t = r11 + r22 + r33
  OBVIOUS
<1>7. n*(t + 1) = 4*(w*w)
  <2>1. n*(t + 1) = n*r11 + n*r22 + n*r33 + n
    BY <1>6
  <2> QED BY <1>4, <1>5, <2>1
<1>8. R[1][1] + R[2][2] + R[3][3] = t
  BY <1>3, <1>6 DEF IsMatrix
<1>9. CASE t > 0
  <2>1. PICK e \in Int, f \in Int, g \in Int, h \in Int, s \in Int :
          e = r32 - r23 /\ f = r13 - r31 /\ g = r21 - r12 /\ h = t + 1 /\ s = 4*w
    OBVIOUS
  <2>2. n*e = s*x /\ n*f = s*y /\ n*g = s*z /\ n*h = s*w
    <3>1. n*e = n*r32 - n*r23 /\ n*f = n*r13 - n*r31 /\ n*g = n*r21 - n*r12
      BY <2>1
    <3>2. n*e = 4*(x*w) /\ n*f = 4*(y*w) /\ n*g = 4*(z*w)
      BY <1>5, <3>1
    <3>3. s*x = 4*(x*w) /\ s*y = 4*(y*w) /\ s*z = 4*(z*w) /\ s*w = 4*(w*w)
      BY <2>1
    <3>4. n*h = 4*(w*w)
      BY <1>7, <2>1
    <3> QED BY <3>2, <3>3, <3>4
  <2>3. s # 0
    <3>1. n*(t + 1) > 0
      BY <1>4, <1>9
    <3>2. w # 0
      BY <1>7, <3>1
    <3> QED BY <2>1, <3>2
  <2>4. Multiple(n, s, x, y, z, w, e, f, g, h)
    BY <1>4, <2>2, <2>3 DEF Multiple
  <2> DEFINE p == <<R[3][2] - R[2][3], R[1][3] - R[3][1], R[2][1] - R[1][2],
                    R[1][1] + R[2][2] + R[3][3] + 1>>
  <2>5. IsFour(p, e, f, g, h)
    BY <1>3, <1>6, <2>1 DEF IsMatrix, IsFour
  <2>6. Poses!matrix_quaternion(R) = Signed(p)
    BY <1>8, <1>9 DEF Poses!matrix_quaternion, Poses!Positive, Signed
  <2> HIDE DEF p
  <2>7. Names(Signed(p), R)
    BY <1>1, <1>2, <2>4, <2>5, BranchNames
  <2> QED BY <2>6, <2>7
<1>10. CASE ~(t > 0)
  <2> DEFINE L == Poses!Largest(R)
             p1 == <<1 + R[1][1] - R[2][2] - R[3][3], R[1][2] + R[2][1],
                     R[1][3] + R[3][1], R[3][2] - R[2][3]>>
             p2 == <<R[1][2] + R[2][1], 1 + R[2][2] - R[1][1] - R[3][3],
                     R[2][3] + R[3][2], R[1][3] - R[3][1]>>
             p3 == <<R[1][3] + R[3][1], R[2][3] + R[3][2],
                     1 + R[3][3] - R[1][1] - R[2][2], R[2][1] - R[1][2]>>
             B == CASE L = 1 -> p1 [] L = 2 -> p2 [] L = 3 -> p3
  <2>1. Poses!matrix_quaternion(R) = Signed(B)
    <3> DEFINE p0 == <<R[3][2] - R[2][3], R[1][3] - R[3][1], R[2][1] - R[1][2],
                       R[1][1] + R[2][2] + R[3][3] + 1>>
    <3>1. Poses!matrix_quaternion(R)
            = Signed(IF R[1][1] + R[2][2] + R[3][3] > 0 THEN p0 ELSE B)
      BY Zenon DEF Poses!matrix_quaternion, Poses!Positive, Signed
    <3> HIDE DEF p0, B
    <3> QED BY <1>8, <1>10, <3>1
  <2>2. L \in 1 .. 3 /\ \A j \in 1 .. 3 : R[j][j] <= R[L][L]
    BY <1>2, LargestIs
  <2>3. 4*(w*w) <= n
    <3>1. n*t <= 0
      BY <1>4, <1>10
    <3>2. n*(t + 1) = n*t + n
      OBVIOUS
    <3> QED BY <1>7, <3>1, <3>2
  <2>4. CASE L = 1
    <3>1. B = p1
      BY <2>4
    <3>2. r22 <= r11 /\ r33 <= r11
      <4>1. R[2][2] <= R[1][1] /\ R[3][3] <= R[1][1]
        BY <2>2, <2>4
      <4> QED BY <1>3, <4>1 DEF IsMatrix
    <3>3. y*y <= x*x /\ z*z <= x*x
      <4>1. n*r22 <= n*r11 /\ n*r33 <= n*r11
        BY <1>4, <3>2
      <4> QED BY <1>5, <4>1
    <3>4. x # 0
      <4> SUFFICES ASSUME x = 0 PROVE FALSE
        OBVIOUS
      <4>1. x*x = 0 /\ y*y <= 0 /\ z*z <= 0 /\ w*w >= 0
        BY <3>3
      <4> QED BY <1>4, <2>3, <4>1
    <3>5. PICK e \in Int, f \in Int, g \in Int, h \in Int, s \in Int :
            e = 1 + r11 - r22 - r33 /\ f = r12 + r21 /\ g = r13 + r31 /\ h = r32 - r23 /\ s = 4*x
      OBVIOUS
    <3>6. n*e = s*x /\ n*f = s*y /\ n*g = s*z /\ n*h = s*w
      <4>1. n*e = n + n*r11 - n*r22 - n*r33 /\ n*f = n*r12 + n*r21 /\ n*g = n*r13 + n*r31
            /\ n*h = n*r32 - n*r23
        BY <3>5
      <4>2. n*e = 4*(x*x) /\ n*f = 4*(x*y) /\ n*g = 4*(x*z) /\ n*h = 4*(x*w)
        BY <1>5, <4>1
      <4>3. s*x = 4*(x*x) /\ s*y = 4*(x*y) /\ s*z = 4*(x*z) /\ s*w = 4*(x*w)
        BY <3>5
      <4> QED BY <4>2, <4>3
    <3>7. Multiple(n, s, x, y, z, w, e, f, g, h)
      BY <1>4, <3>4, <3>5, <3>6 DEF Multiple
    <3>8. IsFour(p1, e, f, g, h)
      BY <1>3, <3>5 DEF IsMatrix, IsFour
    <3> HIDE DEF B, p1
    <3>9. Names(Signed(p1), R)
      BY <1>1, <1>2, <3>7, <3>8, BranchNames
    <3> QED BY <2>1, <3>1, <3>9
  <2>5. CASE L = 2
    <3>1. B = p2
      BY <2>5
    <3>2. r11 <= r22 /\ r33 <= r22
      <4>1. R[1][1] <= R[2][2] /\ R[3][3] <= R[2][2]
        BY <2>2, <2>5
      <4> QED BY <1>3, <4>1 DEF IsMatrix
    <3>3. x*x <= y*y /\ z*z <= y*y
      <4>1. n*r11 <= n*r22 /\ n*r33 <= n*r22
        BY <1>4, <3>2
      <4> QED BY <1>5, <4>1
    <3>4. y # 0
      <4> SUFFICES ASSUME y = 0 PROVE FALSE
        OBVIOUS
      <4>1. y*y = 0 /\ x*x <= 0 /\ z*z <= 0 /\ w*w >= 0
        BY <3>3
      <4> QED BY <1>4, <2>3, <4>1
    <3>5. PICK e \in Int, f \in Int, g \in Int, h \in Int, s \in Int :
            e = r12 + r21 /\ f = 1 + r22 - r11 - r33 /\ g = r23 + r32 /\ h = r13 - r31 /\ s = 4*y
      OBVIOUS
    <3>6. n*e = s*x /\ n*f = s*y /\ n*g = s*z /\ n*h = s*w
      <4>1. n*e = n*r12 + n*r21 /\ n*f = n + n*r22 - n*r11 - n*r33 /\ n*g = n*r23 + n*r32
            /\ n*h = n*r13 - n*r31
        BY <3>5
      <4>2. n*e = 4*(x*y) /\ n*f = 4*(y*y) /\ n*g = 4*(y*z) /\ n*h = 4*(y*w)
        BY <1>5, <4>1
      <4>3. s*x = 4*(x*y) /\ s*y = 4*(y*y) /\ s*z = 4*(y*z) /\ s*w = 4*(y*w)
        BY <3>5
      <4> QED BY <4>2, <4>3
    <3>7. Multiple(n, s, x, y, z, w, e, f, g, h)
      BY <1>4, <3>4, <3>5, <3>6 DEF Multiple
    <3>8. IsFour(p2, e, f, g, h)
      BY <1>3, <3>5 DEF IsMatrix, IsFour
    <3> HIDE DEF B, p2
    <3>9. Names(Signed(p2), R)
      BY <1>1, <1>2, <3>7, <3>8, BranchNames
    <3> QED BY <2>1, <3>1, <3>9
  <2>6. CASE L = 3
    <3>1. B = p3
      BY <2>6
    <3>2. r11 <= r33 /\ r22 <= r33
      <4>1. R[1][1] <= R[3][3] /\ R[2][2] <= R[3][3]
        BY <2>2, <2>6
      <4> QED BY <1>3, <4>1 DEF IsMatrix
    <3>3. x*x <= z*z /\ y*y <= z*z
      <4>1. n*r11 <= n*r33 /\ n*r22 <= n*r33
        BY <1>4, <3>2
      <4> QED BY <1>5, <4>1
    <3>4. z # 0
      <4> SUFFICES ASSUME z = 0 PROVE FALSE
        OBVIOUS
      <4>1. z*z = 0 /\ x*x <= 0 /\ y*y <= 0 /\ w*w >= 0
        BY <3>3
      <4> QED BY <1>4, <2>3, <4>1
    <3>5. PICK e \in Int, f \in Int, g \in Int, h \in Int, s \in Int :
            e = r13 + r31 /\ f = r23 + r32 /\ g = 1 + r33 - r11 - r22 /\ h = r21 - r12 /\ s = 4*z
      OBVIOUS
    <3>6. n*e = s*x /\ n*f = s*y /\ n*g = s*z /\ n*h = s*w
      <4>1. n*e = n*r13 + n*r31 /\ n*f = n*r23 + n*r32 /\ n*g = n + n*r33 - n*r11 - n*r22
            /\ n*h = n*r21 - n*r12
        BY <3>5
      <4>2. n*e = 4*(x*z) /\ n*f = 4*(y*z) /\ n*g = 4*(z*z) /\ n*h = 4*(z*w)
        BY <1>5, <4>1
      <4>3. s*x = 4*(x*z) /\ s*y = 4*(y*z) /\ s*z = 4*(z*z) /\ s*w = 4*(z*w)
        BY <3>5
      <4> QED BY <4>2, <4>3
    <3>7. Multiple(n, s, x, y, z, w, e, f, g, h)
      BY <1>4, <3>4, <3>5, <3>6 DEF Multiple
    <3>8. IsFour(p3, e, f, g, h)
      BY <1>3, <3>5 DEF IsMatrix, IsFour
    <3> HIDE DEF B, p3
    <3>9. Names(Signed(p3), R)
      BY <1>1, <1>2, <3>7, <3>8, BranchNames
    <3> QED BY <2>1, <3>1, <3>9
  <2> QED BY <2>2, <2>4, <2>5, <2>6
<1> QED BY <1>9, <1>10

-----------------------------------------------------------------------------
(* Rotations, and the quaternions the code has of them                        *)

Rot(R) == \E q : Names(q, R)

\* A rotation is a matrix.
LEMMA RotMat ==
    ASSUME NEW R, Rot(R)
    PROVE  R \in Mat
BY DEF Rot, Names

\* Its transpose is a rotation, and its inverse.
LEMMA RotTranspose ==
    ASSUME NEW R, Rot(R)
    PROVE  /\ Rot(Poses!Transpose(R))
           /\ Poses!Rotate(Poses!Transpose(R), R) = Poses!Identity
           /\ Poses!Rotate(R, Poses!Transpose(R)) = Poses!Identity
<1>1. PICK q : Names(q, R)
  BY DEF Rot
<1> QED BY <1>1, NamesConjugate, NamesOrthogonal, NamesOrthogonalToo DEF Rot

\* A product of rotations is a rotation.
LEMMA RotRotate ==
    ASSUME NEW R, NEW S, Rot(R), Rot(S)
    PROVE  Rot(Poses!Rotate(R, S))
<1>1. PICK p : Names(p, R)
  BY DEF Rot
<1>2. PICK q : Names(q, S)
  BY DEF Rot
<1> QED BY <1>1, <1>2, NamesProduct DEF Rot

\* A rotation survives the way through its quaternion.
LEMMA RotBack ==
    ASSUME NEW R, Rot(R)
    PROVE  /\ Poses!quaternion_matrix(Poses!matrix_quaternion(R)) = R
           /\ Poses!Exact(Poses!matrix_quaternion(R))
<1>1. PICK q : Names(q, R)
  BY DEF Rot
<1>2. Names(Poses!matrix_quaternion(R), R)
  BY <1>1, NamesBack
<1> QED BY <1>2, NamesExact

\* An exact quaternion gives a rotation.
LEMMA ExactRot ==
    ASSUME NEW q, Poses!Exact(q)
    PROVE  Rot(Poses!quaternion_matrix(q))
BY ExactNames DEF Rot

\* multiply_quaternions multiplies the rotations.
LEMMA ExactProduct ==
    ASSUME NEW p, NEW q, Poses!Exact(p), Poses!Exact(q)
    PROVE  /\ Poses!Exact(Poses!multiply_quaternions(p, q))
           /\ Poses!quaternion_matrix(Poses!multiply_quaternions(p, q))
                = Poses!Rotate(Poses!quaternion_matrix(p), Poses!quaternion_matrix(q))
<1> DEFINE R == Poses!quaternion_matrix(p)
           S == Poses!quaternion_matrix(q)
<1>1. Names(p, R) /\ Names(q, S)
  BY ExactNames
<1>2. Names(Poses!multiply_quaternions(p, q), Poses!Rotate(R, S))
  BY <1>1, NamesProduct
<1> QED BY <1>2, NamesExact

\* The conjugate is the rotation back.
LEMMA ExactConjugate ==
    ASSUME NEW q, Poses!Exact(q)
    PROVE  /\ Poses!Exact(Poses!Conjugate(q))
           /\ Poses!quaternion_matrix(Poses!Conjugate(q))
                = Poses!Transpose(Poses!quaternion_matrix(q))
<1>1. Names(q, Poses!quaternion_matrix(q))
  BY ExactNames
<1>2. Names(Poses!Conjugate(q), Poses!Transpose(Poses!quaternion_matrix(q)))
  BY <1>1, NamesConjugate
<1> QED BY <1>2, NamesExact

\* Nine integers make a matrix.
LEMMA GridMat ==
    ASSUME NEW r11 \in Int, NEW r12 \in Int, NEW r13 \in Int,
           NEW r21 \in Int, NEW r22 \in Int, NEW r23 \in Int,
           NEW r31 \in Int, NEW r32 \in Int, NEW r33 \in Int
    PROVE  \E R \in Mat : IsMatrix(R, r11, r12, r13, r21, r22, r23, r31, r32, r33)
<1> DEFINE R == <<<<r11, r12, r13>>, <<r21, r22, r23>>, <<r31, r32, r33>>>>
<1>1. R \in Mat
  BY DEF Mat, Vec, Poses!Vectors
<1>2. IsMatrix(R, r11, r12, r13, r21, r22, r23, r31, r32, r33)
  BY DEF IsMatrix
<1> HIDE DEF R
<1> QED BY <1>1, <1>2

\* Four numbers that name nine are an exact quaternion.
LEMMA NamedExact ==
    ASSUME NEW n \in Int, NEW x \in Int, NEW y \in Int, NEW z \in Int, NEW w \in Int,
           NEW r11 \in Int, NEW r12 \in Int, NEW r13 \in Int,
           NEW r21 \in Int, NEW r22 \in Int, NEW r23 \in Int,
           NEW r31 \in Int, NEW r32 \in Int, NEW r33 \in Int, NEW q, IsFour(q, x, y, z, w),
           Named(n, x, y, z, w, r11, r12, r13, r21, r22, r23, r31, r32, r33)
    PROVE  Poses!Exact(q)
<1>1. PICK R \in Mat : IsMatrix(R, r11, r12, r13, r21, r22, r23, r31, r32, r33)
  BY GridMat
<1>2. Numbers(q, R, n, x, y, z, w, r11, r12, r13, r21, r22, r23, r31, r32, r33)
  BY <1>1 DEF Numbers
<1>3. Names(q, R)
  BY <1>2, NamedNames
<1> QED BY <1>3, NamesExact

\* No turn is the identity.
LEMMA IdentityNames == Names(<<0, 0, 0, 1>>, Poses!Identity)
<1>1. Four(<<0, 0, 0, 1>>) /\ Poses!Norm2(<<0, 0, 0, 1>>) = 1
  BY DEF Four, Poses!Norm2
<1> QED BY <1>1, IdentityMat DEF Names, Poses!Identity

\* The identity is a rotation.
LEMMA RotIdentity == Rot(Poses!Identity)
BY IdentityNames DEF Rot

\* Quarter turns about an axis of length one are exact.
LEMMA AxisExact ==
    ASSUME NEW v \in Vec, Poses!Dot(v, v) = 1, NEW k \in Int
    PROVE  Poses!Exact(Poses!axis_angle_quaternion(v, k))
<1> DEFINE Q == Poses!axis_angle_quaternion(v, k)
<1>1. PICK a \in Int, b \in Int, c \in Int : v = <<a, b, c>> /\ v[1] = a /\ v[2] = b /\ v[3] = c
  BY VecIs
<1>2. a*a + b*b + c*c = 1
  BY <1>1 DEF Poses!Dot
<1>3. v # Poses!Zero
  <2> SUFFICES ASSUME v = Poses!Zero PROVE FALSE
    OBVIOUS
  <2>1. a = 0 /\ b = 0 /\ c = 0
    BY <1>1 DEF Poses!Zero
  <2> QED BY <1>2, <2>1
<1>4. k % 4 = 0 \/ k % 4 = 1 \/ k % 4 = 2 \/ k % 4 = 3
  OBVIOUS
<1>5. CASE k % 4 = 0
  <2>1. Q = <<0 * v[1], 0 * v[2], 0 * v[3], 1>>
    BY <1>3, <1>5 DEF Poses!axis_angle_quaternion
  <2>2. Q = <<0, 0, 0, 1>>
    BY <1>1, <2>1
  <2> QED BY <2>2, IdentityNames, NamesExact
<1>6. CASE k % 4 = 1
  <2>1. Q = <<1 * v[1], 1 * v[2], 1 * v[3], 1>>
    BY <1>3, <1>6 DEF Poses!axis_angle_quaternion
  <2>2. IsFour(Q, a, b, c, 1)
    BY <1>1, <2>1 DEF IsFour
  <2>3. PICK r11 \in Int, r12 \in Int, r13 \in Int,
             r21 \in Int, r22 \in Int, r23 \in Int,
             r31 \in Int, r32 \in Int, r33 \in Int :
          /\ r11 = a*a /\ r12 = a*b - c /\ r13 = a*c + b
          /\ r21 = a*b + c /\ r22 = b*b /\ r23 = b*c - a
          /\ r31 = a*c - b /\ r32 = b*c + a /\ r33 = c*c
    OBVIOUS
  <2>4. Named(2, a, b, c, 1, r11, r12, r13, r21, r22, r23, r31, r32, r33)
    BY <1>2, <2>3 DEF Named, IsNorm
  <2> QED BY <2>2, <2>4, NamedExact
<1>7. CASE k % 4 = 2
  <2>1. Q = <<1 * v[1], 1 * v[2], 1 * v[3], 0>>
    BY <1>3, <1>7 DEF Poses!axis_angle_quaternion
  <2>2. IsFour(Q, a, b, c, 0)
    BY <1>1, <2>1 DEF IsFour
  <2>3. PICK r11 \in Int, r12 \in Int, r13 \in Int,
             r21 \in Int, r22 \in Int, r23 \in Int,
             r31 \in Int, r32 \in Int, r33 \in Int :
          /\ r11 = 1 - 2*(b*b + c*c) /\ r12 = 2*(a*b) /\ r13 = 2*(a*c)
          /\ r21 = 2*(a*b) /\ r22 = 1 - 2*(a*a + c*c) /\ r23 = 2*(b*c)
          /\ r31 = 2*(a*c) /\ r32 = 2*(b*c) /\ r33 = 1 - 2*(a*a + b*b)
    OBVIOUS
  <2>4. Named(1, a, b, c, 0, r11, r12, r13, r21, r22, r23, r31, r32, r33)
    BY <1>2, <2>3 DEF Named, IsNorm
  <2> QED BY <2>2, <2>4, NamedExact
<1>8. CASE k % 4 = 3
  <2>1. Q = <<1 * v[1], 1 * v[2], 1 * v[3], -1>>
    BY <1>3, <1>8 DEF Poses!axis_angle_quaternion
  <2>2. IsFour(Q, a, b, c, -1)
    BY <1>1, <2>1 DEF IsFour
  <2>3. PICK r11 \in Int, r12 \in Int, r13 \in Int,
             r21 \in Int, r22 \in Int, r23 \in Int,
             r31 \in Int, r32 \in Int, r33 \in Int :
          /\ r11 = a*a /\ r12 = a*b + c /\ r13 = a*c - b
          /\ r21 = a*b - c /\ r22 = b*b /\ r23 = b*c + a
          /\ r31 = a*c + b /\ r32 = b*c - a /\ r33 = c*c
    OBVIOUS
  <2>4. Named(2, a, b, c, -1, r11, r12, r13, r21, r22, r23, r31, r32, r33)
    BY <1>2, <2>3 DEF Named, IsNorm
  <2> QED BY <2>2, <2>4, NamedExact
<1> QED BY <1>4, <1>5, <1>6, <1>7, <1>8

-----------------------------------------------------------------------------
(* Motions                                                                    *)

Motion(M) == M = [t |-> M.t, r |-> M.r] /\ M.t \in Vec /\ Rot(M.r)

\* A vector and a rotation make a motion.
LEMMA MakeMotion ==
    ASSUME NEW v \in Vec, NEW R, Rot(R)
    PROVE  Motion([t |-> v, r |-> R])
BY DEF Motion

\* Motions are the same when their parts are.
LEMMA SameMotion ==
    ASSUME NEW A, NEW B, Motion(A), Motion(B), A.t = B.t, A.r = B.r
    PROVE  A = B
BY DEF Motion

\* A composition is a motion.
LEMMA ComposeIs ==
    ASSUME NEW A, NEW B, Motion(A), Motion(B)
    PROVE  /\ Motion(Poses!Compose(A, B))
           /\ Poses!Compose(A, B).t = Poses!Plus(A.t, Poses!Apply(A.r, B.t))
           /\ Poses!Compose(A, B).r = Poses!Rotate(A.r, B.r)
<1>1. A.t \in Vec /\ Rot(A.r) /\ B.t \in Vec /\ Rot(B.r) /\ A.r \in Mat
  BY RotMat DEF Motion
<1>2. Poses!Plus(A.t, Poses!Apply(A.r, B.t)) \in Vec
  BY <1>1, ApplyVec, PlusVec
<1>3. Rot(Poses!Rotate(A.r, B.r))
  BY <1>1, RotRotate
<1> QED BY <1>2, <1>3, MakeMotion DEF Poses!Compose

\* An inverse is a motion.
LEMMA InverseIs ==
    ASSUME NEW A, Motion(A)
    PROVE  /\ Motion(Poses!Inverse(A))
           /\ Poses!Inverse(A).t = Poses!Times(-1, Poses!Apply(Poses!Transpose(A.r), A.t))
           /\ Poses!Inverse(A).r = Poses!Transpose(A.r)
<1> DEFINE T == Poses!Transpose(A.r)
<1>1. A.t \in Vec /\ Rot(A.r) /\ A.r \in Mat /\ Rot(T) /\ T \in Mat
  BY RotMat, RotTranspose DEF Motion
<1>2. Poses!Times(-1, Poses!Apply(T, A.t)) \in Vec
  BY <1>1, ApplyVec, TimesVec
<1>3. Poses!Inverse(A) = [t |-> Poses!Times(-1, Poses!Apply(T, A.t)), r |-> T]
  BY DEF Poses!Inverse
<1> QED BY <1>1, <1>2, <1>3, MakeMotion

\* Sums of vectors are associative.
LEMMA PlusPlus ==
    ASSUME NEW u \in Vec, NEW v \in Vec, NEW w \in Vec
    PROVE  Poses!Plus(Poses!Plus(u, v), w) = Poses!Plus(u, Poses!Plus(v, w))
<1>1. /\ u[1] \in Int /\ u[2] \in Int /\ u[3] \in Int /\ v[1] \in Int /\ v[2] \in Int
      /\ v[3] \in Int /\ w[1] \in Int /\ w[2] \in Int /\ w[3] \in Int
  BY VecIs
<1> QED BY <1>1 DEF Poses!Plus

\* Compositions are associative.
LEMMA ComposeCompose ==
    ASSUME NEW A, NEW B, NEW C, Motion(A), Motion(B), Motion(C)
    PROVE  Poses!Compose(Poses!Compose(A, B), C) = Poses!Compose(A, Poses!Compose(B, C))
<1> DEFINE AB == Poses!Compose(A, B)
           BC == Poses!Compose(B, C)
           L == Poses!Compose(AB, C)
           M == Poses!Compose(A, BC)
<1>1. Motion(AB) /\ Motion(BC)
  BY ComposeIs
<1>2. /\ A.t \in Vec /\ B.t \in Vec /\ C.t \in Vec
      /\ A.r \in Mat /\ B.r \in Mat /\ C.r \in Mat
  BY RotMat DEF Motion
<1>3. /\ AB.t = Poses!Plus(A.t, Poses!Apply(A.r, B.t)) /\ AB.r = Poses!Rotate(A.r, B.r)
      /\ BC.t = Poses!Plus(B.t, Poses!Apply(B.r, C.t)) /\ BC.r = Poses!Rotate(B.r, C.r)
  BY ComposeIs
<1> HIDE DEF AB, BC
<1>4. /\ Motion(L) /\ L.t = Poses!Plus(AB.t, Poses!Apply(AB.r, C.t)) /\ L.r = Poses!Rotate(AB.r, C.r)
  BY <1>1, ComposeIs
<1>5. /\ Motion(M) /\ M.t = Poses!Plus(A.t, Poses!Apply(A.r, BC.t)) /\ M.r = Poses!Rotate(A.r, BC.r)
  BY <1>1, ComposeIs
<1> HIDE DEF L, M
<1>6. L.r = M.r
  BY <1>2, <1>3, <1>4, <1>5, RotateRotate
<1>7. L.t = M.t
  <2> DEFINE b == Poses!Apply(A.r, B.t)
             c == Poses!Apply(B.r, C.t)
  <2>1. b \in Vec /\ c \in Vec /\ Poses!Apply(A.r, c) \in Vec
    BY <1>2, ApplyVec
  <2>2. Poses!Apply(AB.r, C.t) = Poses!Apply(A.r, c)
    BY <1>2, <1>3, ApplyRotate
  <2>3. Poses!Apply(A.r, BC.t) = Poses!Plus(b, Poses!Apply(A.r, c))
    BY <1>2, <1>3, <2>1, ApplyPlus
  <2>4. AB.t = Poses!Plus(A.t, b)
    BY <1>3
  <2> HIDE DEF b, c
  <2> QED BY <1>2, <1>4, <1>5, <2>1, <2>2, <2>3, <2>4, PlusPlus
<1>8. L = M
  BY <1>4, <1>5, <1>6, <1>7, SameMotion
<1> QED BY <1>8 DEF L, M, AB, BC

\* Going back and forth: Inverse(A) then B, from A on, is B.
LEMMA ComposeInverse ==
    ASSUME NEW A, NEW B, Motion(A), Motion(B)
    PROVE  Poses!Compose(A, Poses!Compose(Poses!Inverse(A), B)) = B
<1> DEFINE I == Poses!Inverse(A)
           T == Poses!Transpose(A.r)
           IB == Poses!Compose(I, B)
           L == Poses!Compose(A, IB)
<1>1. /\ A.t \in Vec /\ B.t \in Vec /\ A.r \in Mat /\ B.r \in Mat /\ T \in Mat
      /\ Rot(A.r)
  BY RotMat, TransposeMat DEF Motion
<1>2. /\ Motion(I) /\ I.t = Poses!Times(-1, Poses!Apply(T, A.t)) /\ I.r = T
  BY InverseIs
<1>3. Poses!Rotate(A.r, T) = Poses!Identity
  BY <1>1, RotTranspose
<1> HIDE DEF I, T
<1>4. /\ Motion(IB) /\ IB.t = Poses!Plus(I.t, Poses!Apply(I.r, B.t)) /\ IB.r = Poses!Rotate(I.r, B.r)
  BY <1>2, ComposeIs
<1> HIDE DEF IB
<1>5. /\ Motion(L) /\ L.t = Poses!Plus(A.t, Poses!Apply(A.r, IB.t)) /\ L.r = Poses!Rotate(A.r, IB.r)
  BY <1>4, ComposeIs
<1> HIDE DEF L
<1>6. L.r = B.r
  <2>1. L.r = Poses!Rotate(Poses!Rotate(A.r, T), B.r)
    BY <1>1, <1>2, <1>4, <1>5, RotateRotate
  <2>2. \A j \in 1 .. 3 : Poses!Column(Poses!Rotate(Poses!Identity, B.r), j) = Poses!Column(B.r, j)
    BY <1>1, IdentityMat, ColumnRotate, ColumnVec, ApplyIdentity
  <2>3. Poses!Rotate(Poses!Identity, B.r) = B.r
    BY <1>1, <2>2, IdentityMat, RotateMat, ColumnsSame
  <2> QED BY <1>3, <2>1, <2>3
<1>7. L.t = B.t
  <2>1. Poses!Apply(T, A.t) \in Vec /\ Poses!Apply(T, B.t) \in Vec /\ I.t \in Vec
    BY <1>1, <1>2, ApplyVec DEF Motion
  <2>2. Poses!Apply(A.r, IB.t) = Poses!Plus(Poses!Apply(A.r, I.t), Poses!Apply(A.r, Poses!Apply(T, B.t)))
    BY <1>1, <1>2, <1>4, <2>1, ApplyPlus
  <2>3. Poses!Apply(A.r, I.t) = Poses!Times(-1, Poses!Apply(A.r, Poses!Apply(T, A.t)))
    BY <1>1, <1>2, <2>1, ApplyTimes
  <2>4. \A v \in Vec : Poses!Apply(A.r, Poses!Apply(T, v)) = v
    BY <1>1, <1>3, ApplyRotate, ApplyIdentity
  <2>5. L.t = Poses!Plus(A.t, Poses!Plus(Poses!Times(-1, A.t), B.t))
    BY <1>1, <1>5, <2>2, <2>3, <2>4
  <2>6. /\ A.t = <<A.t[1], A.t[2], A.t[3]>> /\ B.t = <<B.t[1], B.t[2], B.t[3]>>
        /\ A.t[1] \in Int /\ A.t[2] \in Int /\ A.t[3] \in Int
        /\ B.t[1] \in Int /\ B.t[2] \in Int /\ B.t[3] \in Int
    BY <1>1, VecIs
  <2> DEFINE u == A.t
             v == B.t
  <2>7. Poses!Plus(u, Poses!Plus(Poses!Times(-1, u), v)) = <<v[1], v[2], v[3]>>
    BY <2>6 DEF Poses!Plus, Poses!Times
  <2> QED BY <2>5, <2>6, <2>7
<1>8. L = B
  BY <1>5, <1>6, <1>7, SameMotion
<1> QED BY <1>8 DEF L, IB, I

\* What is written down is read back.
LEMMA LogExp ==
    ASSUME NEW M, Motion(M)
    PROVE  Poses!se3_exp(Poses!se3_log(M)) = M
BY RotBack DEF Motion, Poses!se3_exp, Poses!se3_log

\* pose_record is undone by matrix_from_pose_record.
LEMMA RecordBack ==
    ASSUME NEW M, Motion(M)
    PROVE  /\ Poses!IsPose(Poses!pose_record(M))
           /\ Poses!transform_matrix(Poses!pose_record(M)) = M
           /\ Poses!matrix_from_pose_record(Poses!pose_record(M)) = M
<1>1. M = [t |-> M.t, r |-> M.r] /\ M.t \in Vec /\ Rot(M.r)
  BY DEF Motion
<1>2. /\ Poses!quaternion_matrix(Poses!matrix_quaternion(M.r)) = M.r
      /\ Poses!Exact(Poses!matrix_quaternion(M.r))
  BY <1>1, RotBack
<1>3. Poses!IsPose(Poses!pose_record(M))
  BY <1>1, <1>2 DEF Poses!IsPose, Poses!pose_record, Vec
<1>4. Poses!transform_matrix(Poses!pose_record(M)) = M
  BY <1>1, <1>2 DEF Poses!transform_matrix, Poses!pose_record
<1> QED BY <1>3, <1>4 DEF Poses!matrix_from_pose_record

\* The matrix of a pose is a motion.
LEMMA PoseMotion ==
    ASSUME NEW tf, Poses!IsPose(tf)
    PROVE  /\ Motion(Poses!transform_matrix(tf))
           /\ Poses!transform_matrix(tf).t = tf.t
           /\ Poses!transform_matrix(tf).r = Poses!quaternion_matrix(tf.q)
<1>1. tf.t \in Vec /\ Rot(Poses!quaternion_matrix(tf.q))
  BY ExactRot DEF Poses!IsPose, Vec
<1> QED BY <1>1, MakeMotion DEF Poses!transform_matrix

-----------------------------------------------------------------------------
(* Three axes at right angles                                                 *)

Right(a, b, c) ==
    /\ a \in Vec /\ b \in Vec /\ c \in Vec
    /\ Poses!Dot(a, a) = 1 /\ Poses!Dot(b, b) = 1 /\ Poses!Dot(c, c) = 1
    /\ Poses!Dot(a, b) = 0 /\ Poses!Dot(a, c) = 0 /\ Poses!Dot(b, c) = 0

\* The columns of a rotation are at right angles.
LEMMA ColumnsRight ==
    ASSUME NEW R, Rot(R)
    PROVE  Right(Poses!Column(R, 1), Poses!Column(R, 2), Poses!Column(R, 3))
<1> DEFINE T == Poses!Transpose(R)
<1>1. R \in Mat /\ Poses!Rotate(T, R) = Poses!Identity
  BY RotMat, RotTranspose
<1>2. \A i, j \in 1 .. 3 : Poses!Identity[i][j] = Poses!Dot(Poses!Column(R, i), Poses!Column(R, j))
  <2> SUFFICES ASSUME NEW i \in 1 .. 3, NEW j \in 1 .. 3
               PROVE  Poses!Rotate(T, R)[i][j] = Poses!Dot(Poses!Column(R, i), Poses!Column(R, j))
    BY <1>1
  <2>1. T[i] = Poses!Column(R, i)
    <3>1. i = 1 \/ i = 2 \/ i = 3
      OBVIOUS
    <3> QED BY <3>1 DEF Poses!Transpose
  <2> QED BY <2>1, RotateAt
<1>3. \A i \in 1 .. 3 : Poses!Column(R, i) \in Vec
  BY <1>1, ColumnVec
<1>4. /\ Poses!Identity[1][1] = 1 /\ Poses!Identity[2][2] = 1 /\ Poses!Identity[3][3] = 1
      /\ Poses!Identity[1][2] = 0 /\ Poses!Identity[1][3] = 0 /\ Poses!Identity[2][3] = 0
  BY DEF Poses!Identity
<1> QED BY <1>2, <1>3, <1>4 DEF Right

\* A product of vectors is the same the other way round.
LEMMA DotSwap ==
    ASSUME NEW u \in Vec, NEW v \in Vec
    PROVE  Poses!Dot(u, v) = Poses!Dot(v, u)
<1>1. /\ u[1] \in Int /\ u[2] \in Int /\ u[3] \in Int
      /\ v[1] \in Int /\ v[2] \in Int /\ v[3] \in Int
  BY VecIs
<1> QED BY <1>1 DEF Poses!Dot

\* One of the axes may be turned round.
LEMMA RightFlip ==
    ASSUME NEW a, NEW b, NEW c, Right(a, b, c)
    PROVE  Right(a, b, Poses!Times(-1, c))
<1>1. Poses!Times(-1, c) \in Vec
  BY TimesVec DEF Right
<1>2. /\ a \in Vec /\ b \in Vec /\ c \in Vec
  BY DEF Right
<1>3. /\ Poses!Dot(Poses!Times(-1, c), Poses!Times(-1, c)) = (-1) * ((-1) * Poses!Dot(c, c))
      /\ Poses!Dot(a, Poses!Times(-1, c)) = (-1) * Poses!Dot(a, c)
      /\ Poses!Dot(b, Poses!Times(-1, c)) = (-1) * Poses!Dot(b, c)
  BY <1>1, <1>2, DotLinear, DotSwap
<1>4. /\ Poses!Dot(c, c) = 1 /\ Poses!Dot(a, c) = 0 /\ Poses!Dot(b, c) = 0
      /\ a \in Vec /\ b \in Vec /\ Poses!Dot(a, a) = 1 /\ Poses!Dot(b, b) = 1
      /\ Poses!Dot(a, b) = 0
  BY DEF Right
<1> DEFINE d == Poses!Times(-1, c)
<1>5. d \in Vec /\ Poses!Dot(d, d) = 1 /\ Poses!Dot(a, d) = 0 /\ Poses!Dot(b, d) = 0
  <2>1. (-1) * 0 = 0 /\ (-1) * ((-1) * 1) = 1
    OBVIOUS
  <2> QED BY <1>1, <1>3, <1>4, <2>1
<1> HIDE DEF d
<1>6. Right(a, b, d)
  BY <1>4, <1>5 DEF Right
<1> QED BY <1>6 DEF d

\* The port's axes are two columns of its rotation and the third one turned round.
LEMMA AxesAre ==
    ASSUME NEW tf, Poses!IsPose(tf)
    PROVE  LET R == Poses!quaternion_matrix(tf.q)
               a == Poses!Times(-1, Poses!Column(R, 3))
           IN  /\ Rot(R) /\ Poses!Apply(R, <<0, 0, -1>>) = a
               /\ Right(Poses!Column(R, 1), Poses!Column(R, 2), a)
               /\ Poses!port_axes(tf, a) = <<Poses!Column(R, 1), Poses!Column(R, 2), a>>
<1> DEFINE R == Poses!quaternion_matrix(tf.q)
           a == Poses!Times(-1, Poses!Column(R, 3))
           c1 == Poses!Column(R, 1)
           c2 == Poses!Column(R, 2)
<1>1. Rot(R) /\ R \in Mat
  BY ExactRot, RotMat DEF Poses!IsPose
<1>2. Right(c1, c2, a)
  BY <1>1, ColumnsRight, RightFlip
<1>3. Poses!Apply(R, <<0, 0, -1>>) = a
  <2>1. Entries(R)
    BY <1>1, MatEntries
  <2> HIDE DEF R
  <2> QED BY <2>1 DEF a, Entries, Poses!Apply, Poses!Dot, Poses!Times, Poses!Column
<1>4. Poses!Minus(c1, Poses!Times(Poses!Dot(c1, a), a)) = c1
  <2> HIDE DEF a, c1, c2
  <2>1. Poses!Dot(c1, a) = 0 /\ c1 \in Vec /\ a \in Vec
    BY <1>2 DEF Right
  <2>2. Poses!Minus(c1, Poses!Times(0, a)) = <<c1[1], c1[2], c1[3]>>
    BY <2>1, VecIs DEF Poses!Minus, Poses!Times
  <2> QED BY <2>1, <2>2, VecIs
<1>5. Poses!Minus(c2, Poses!Times(Poses!Dot(c2, a), a)) = c2
  <2> HIDE DEF a, c1, c2
  <2>1. Poses!Dot(c2, a) = 0 /\ c2 \in Vec /\ a \in Vec
    BY <1>2 DEF Right
  <2>2. Poses!Minus(c2, Poses!Times(0, a)) = <<c2[1], c2[2], c2[3]>>
    BY <2>1, VecIs DEF Poses!Minus, Poses!Times
  <2> QED BY <2>1, <2>2, VecIs
<1>6. Poses!port_axes(tf, a) = <<c1, c2, a>>
  BY <1>4, <1>5 DEF Poses!port_axes
<1> QED BY <1>1, <1>2, <1>3, <1>6

\* What a vector is along three axes.
Along(a, b, c, x, y, z) ==
    Poses!Plus(Poses!Plus(Poses!Times(x, a), Poses!Times(y, b)), Poses!Times(z, c))

\* What a vector is along three axes is what the products with them say.
LEMMA AlongAxes ==
    ASSUME NEW a, NEW b, NEW c, Right(a, b, c), NEW x \in Int, NEW y \in Int, NEW z \in Int
    PROVE  /\ Along(a, b, c, x, y, z) \in Vec
           /\ Poses!Dot(a, Along(a, b, c, x, y, z)) = x
           /\ Poses!Dot(b, Along(a, b, c, x, y, z)) = y
           /\ Poses!Dot(c, Along(a, b, c, x, y, z)) = z
<1> DEFINE u == Poses!Times(x, a)
           v == Poses!Times(y, b)
           w == Poses!Times(z, c)
           uv == Poses!Plus(u, v)
<1>1. a \in Vec /\ b \in Vec /\ c \in Vec /\ u \in Vec /\ v \in Vec /\ w \in Vec /\ uv \in Vec
  BY TimesVec, PlusVec DEF Right
<1>2. Poses!Plus(uv, w) \in Vec
  BY <1>1, PlusVec
<1>3. \A r \in Vec : Poses!Dot(r, Poses!Plus(uv, w))
                       = x * Poses!Dot(r, a) + y * Poses!Dot(r, b) + z * Poses!Dot(r, c)
  <2> SUFFICES ASSUME NEW r \in Vec
               PROVE  Poses!Dot(r, Poses!Plus(uv, w))
                        = x * Poses!Dot(r, a) + y * Poses!Dot(r, b) + z * Poses!Dot(r, c)
    OBVIOUS
  <2>1. /\ Poses!Dot(r, u) = x * Poses!Dot(r, a) /\ Poses!Dot(r, v) = y * Poses!Dot(r, b)
        /\ Poses!Dot(r, w) = z * Poses!Dot(r, c)
    BY <1>1, DotLinear
  <2> HIDE DEF u, v, w
  <2>2. Poses!Dot(r, uv) = Poses!Dot(r, u) + Poses!Dot(r, v)
    BY <1>1, DotLinear
  <2> HIDE DEF uv
  <2>3. Poses!Dot(r, Poses!Plus(uv, w)) = Poses!Dot(r, uv) + Poses!Dot(r, w)
    BY <1>1, DotLinear
  <2> QED BY <2>1, <2>2, <2>3
<1>4. /\ Poses!Dot(b, a) = Poses!Dot(a, b) /\ Poses!Dot(c, a) = Poses!Dot(a, c)
      /\ Poses!Dot(c, b) = Poses!Dot(b, c)
  BY <1>1, DotSwap
<1>5. /\ Poses!Dot(a, a) = 1 /\ Poses!Dot(b, b) = 1 /\ Poses!Dot(c, c) = 1
      /\ Poses!Dot(a, b) = 0 /\ Poses!Dot(a, c) = 0 /\ Poses!Dot(b, c) = 0
  BY DEF Right
<1>6. Along(a, b, c, x, y, z) = Poses!Plus(uv, w)
  BY DEF Along
<1> HIDE DEF uv, w
<1>7. /\ Poses!Dot(a, Poses!Plus(uv, w)) = x * 1 + y * 0 + z * 0
      /\ Poses!Dot(b, Poses!Plus(uv, w)) = x * 0 + y * 1 + z * 0
      /\ Poses!Dot(c, Poses!Plus(uv, w)) = x * 0 + y * 0 + z * 1
  BY <1>1, <1>3, <1>4, <1>5
<1> QED BY <1>2, <1>6, <1>7

-----------------------------------------------------------------------------
(* Where a plan leads                                                         *)

\* The identity changes no matrix.
LEMMA RotateIdentity ==
    ASSUME NEW R \in Mat
    PROVE  Poses!Rotate(Poses!Identity, R) = R /\ Poses!Rotate(R, Poses!Identity) = R
<1>1. \A j \in 1 .. 3 : Poses!Column(Poses!Rotate(Poses!Identity, R), j) = Poses!Column(R, j)
  BY IdentityMat, ColumnRotate, ColumnVec, ApplyIdentity
<1>2. Poses!Rotate(Poses!Identity, R) = R
  BY <1>1, IdentityMat, RotateMat, ColumnsSame
<1>3. \A j \in 1 .. 3 : Poses!Column(Poses!Rotate(R, Poses!Identity), j) = Poses!Column(R, j)
  <2> SUFFICES ASSUME NEW j \in 1 .. 3
               PROVE  Poses!Apply(R, Poses!Column(Poses!Identity, j)) = Poses!Column(R, j)
    BY IdentityMat, ColumnRotate
  <2>1. Entries(R)
    BY MatEntries
  <2>2. j = 1 \/ j = 2 \/ j = 3
    OBVIOUS
  <2>3. /\ Poses!Column(Poses!Identity, 1) = <<1, 0, 0>>
        /\ Poses!Column(Poses!Identity, 2) = <<0, 1, 0>>
        /\ Poses!Column(Poses!Identity, 3) = <<0, 0, 1>>
    BY DEF Poses!Column, Poses!Identity
  <2>4. /\ Poses!Apply(R, <<1, 0, 0>>) = Poses!Column(R, 1)
        /\ Poses!Apply(R, <<0, 1, 0>>) = Poses!Column(R, 2)
        /\ Poses!Apply(R, <<0, 0, 1>>) = Poses!Column(R, 3)
    BY <2>1 DEF Entries, Poses!Apply, Poses!Dot, Poses!Column
  <2> QED BY <2>2, <2>3, <2>4
<1>4. Poses!Rotate(R, Poses!Identity) = R
  BY <1>3, IdentityMat, RotateMat, ColumnsSame
<1> QED BY <1>2, <1>4

\* A shifted origin is a motion without a turn after the one to the origin.
Shift(v) == [t |-> v, r |-> Poses!Identity]

\* shift_origin is a motion after the pose.
LEMMA ShiftIs ==
    ASSUME NEW tf, Poses!IsPose(tf), NEW v \in Vec
    PROVE  /\ Poses!IsPose(Poses!shift_origin(tf, v))
           /\ Motion(Shift(v))
           /\ Poses!transform_matrix(Poses!shift_origin(tf, v))
                = Poses!Compose(Poses!transform_matrix(tf), Shift(v))
<1> DEFINE R == Poses!quaternion_matrix(tf.q)
           u == Poses!Plus(tf.t, Poses!Apply(R, v))
<1>1. tf = [t |-> tf.t, q |-> tf.q] /\ tf.t \in Vec /\ Poses!Exact(tf.q) /\ R \in Mat
  BY ExactRot, RotMat DEF Poses!IsPose, Vec
<1>2. u \in Vec
  BY <1>1, ApplyVec, PlusVec
<1>3. Poses!shift_origin(tf, v) = [t |-> u, q |-> tf.q]
  BY <1>1 DEF Poses!shift_origin
<1>4. Motion(Shift(v)) /\ Shift(v).t = v /\ Shift(v).r = Poses!Identity
  BY RotIdentity, MakeMotion DEF Shift
<1>5. Poses!IsPose(Poses!shift_origin(tf, v))
  BY <1>1, <1>2, <1>3 DEF Poses!IsPose, Vec
<1>6. Poses!transform_matrix(Poses!shift_origin(tf, v)) = [t |-> u, r |-> R]
  BY <1>3 DEF Poses!transform_matrix
<1>7. Poses!Compose(Poses!transform_matrix(tf), Shift(v)) = [t |-> u, r |-> Poses!Rotate(R, Poses!Identity)]
  BY <1>4 DEF Poses!Compose, Poses!transform_matrix
<1> QED BY <1>1, <1>4, <1>5, <1>6, <1>7, RotateIdentity

\* The fields of a sample are integers.
LEMMA SampleInts ==
    ASSUME NEW s, Poses!IsSample(s)
    PROVE  /\ s.view \in BOOLEAN /\ s.x \in Int /\ s.y \in Int /\ s.z \in Int
           /\ s.roll \in Int /\ s.pitch \in Int /\ s.yaw \in Int /\ s.distance \in Int
BY DEF Poses!IsSample

\* The turn of a sample about axes at right angles is exact.
LEMMA TurnExact ==
    ASSUME NEW s, Poses!IsSample(s), NEW a, NEW b, NEW c, Right(a, b, c)
    PROVE  Poses!Exact(Poses!Turn(s, <<a, b, c>>))
<1> DEFINE qa == Poses!axis_angle_quaternion(a, s.roll)
           qb == Poses!axis_angle_quaternion(b, s.pitch)
           qc == Poses!axis_angle_quaternion(c, s.yaw)
<1>1. Poses!Exact(qa) /\ Poses!Exact(qb) /\ Poses!Exact(qc)
  BY SampleInts, AxisExact DEF Right
<1>2. Poses!Turn(s, <<a, b, c>>)
        = Poses!multiply_quaternions(qc, Poses!multiply_quaternions(qb, qa))
  BY DEF Poses!Turn
<1> HIDE DEF qa, qb, qc
<1>3. Poses!Exact(Poses!multiply_quaternions(qb, qa))
  BY <1>1, ExactProduct
<1>4. Poses!Exact(Poses!multiply_quaternions(qc, Poses!multiply_quaternions(qb, qa)))
  BY <1>1, <1>3, ExactProduct
<1> QED BY <1>2, <1>4

\* The plan for a port, in matrices: P, G and T are the rotations of the port, the plug
\* and the TCP, D the one of the sample.
Realign(P, G) == Poses!Rotate(P, Poses!Transpose(G))
Approach(P)   == Poses!Times(-1, Poses!Column(P, 3))
TcpFromPlug(P, G, plug, grip) == Poses!Apply(Realign(P, G), Poses!Minus(grip.t, plug.t))

\* build_pose, in matrices.
LEMMA BuiltIs ==
    ASSUME NEW port, NEW plug, NEW grip, NEW z \in Int,
           Poses!IsPose(port), Poses!IsPose(plug), Poses!IsPose(grip),
           NEW P, P = Poses!quaternion_matrix(port.q), NEW G, G = Poses!quaternion_matrix(plug.q),
           NEW T, T = Poses!quaternion_matrix(grip.q), NEW built, built = Poses!build_pose(port, plug, grip, z)
    PROVE  /\ Rot(P) /\ Rot(G) /\ Rot(T)
           /\ built.axis = Approach(P) /\ built.tcpFromPlug = TcpFromPlug(P, G, plug, grip)
           /\ built.pose.t = Poses!Plus(Poses!Plus(port.t, Poses!Times(z, Approach(P))),
                                        TcpFromPlug(P, G, plug, grip))
           /\ Poses!Exact(built.pose.q)
           /\ Poses!quaternion_matrix(built.pose.q) = Poses!Rotate(Realign(P, G), T)
<1>1. Poses!Exact(port.q) /\ Poses!Exact(plug.q) /\ Poses!Exact(grip.q)
  BY DEF Poses!IsPose
<1>2. Rot(P) /\ Rot(G) /\ Rot(T)
  BY <1>1, ExactRot
<1>3. Poses!Apply(P, <<0, 0, -1>>) = Approach(P)
  BY AxesAre DEF Approach
<1> DEFINE pq == Poses!multiply_quaternions(port.q, Poses!Conjugate(plug.q))
<1>4. Poses!Exact(pq) /\ Poses!quaternion_matrix(pq) = Realign(P, G)
  BY <1>1, ExactConjugate, ExactProduct DEF Realign
<1>5. built = [pose |-> [t |-> Poses!Plus(Poses!Plus(port.t, Poses!Times(z, Approach(P))),
                                          TcpFromPlug(P, G, plug, grip)),
                         q |-> Poses!multiply_quaternions(pq, grip.q)],
               axis |-> Approach(P), tcpFromPlug |-> TcpFromPlug(P, G, plug, grip)]
  BY <1>3 DEF Poses!build_pose, TcpFromPlug, Realign
<1> HIDE DEF pq
<1>6. /\ Poses!Exact(Poses!multiply_quaternions(pq, grip.q))
      /\ Poses!quaternion_matrix(Poses!multiply_quaternions(pq, grip.q)) = Poses!Rotate(Realign(P, G), T)
  BY <1>1, <1>4, ExactProduct
<1> QED BY <1>2, <1>5, <1>6

\* A plan: the poses it starts from, their matrices, and what comes of the sample.
Planned(s, port, plug, grip, P, G, T, D, built, f, pose) ==
    /\ Poses!IsSample(s) /\ Poses!IsPose(port) /\ Poses!IsPose(plug) /\ Poses!IsPose(grip)
    /\ P = Poses!quaternion_matrix(port.q) /\ G = Poses!quaternion_matrix(plug.q)
    /\ T = Poses!quaternion_matrix(grip.q)
    /\ D = Poses!quaternion_matrix(
             Poses!Turn(s, <<Poses!Column(P, 1), Poses!Column(P, 2), Approach(P)>>))
    /\ built = Poses!build_pose(port, plug, grip, s.distance)
    /\ f = TcpFromPlug(P, G, plug, grip) /\ pose = Poses!apply_sample(built, port, s)

\* apply_sample, in matrices: what was built, turned and shifted.
LEMMA SampledIs ==
    ASSUME NEW s, NEW port, NEW plug, NEW grip, NEW P, NEW G, NEW T, NEW D, NEW built, NEW f,
           NEW pose, Planned(s, port, plug, grip, P, G, T, D, built, f, pose)
    PROVE  /\ Rot(P) /\ Rot(G) /\ Rot(T)
           /\ Rot(D) /\ Right(Poses!Column(P, 1), Poses!Column(P, 2), Approach(P))
           /\ Poses!IsPose(pose)
           /\ Poses!quaternion_matrix(pose.q) = Poses!Rotate(D, Poses!Rotate(Realign(P, G), T))
           /\ pose.t = Poses!Plus(Poses!Plus(Poses!Plus(port.t, Poses!Times(s.distance, Approach(P))), f),
                         Poses!Plus(Along(Poses!Column(P, 1), Poses!Column(P, 2), Approach(P), s.x, s.y, s.z),
                                    Poses!Minus(Poses!Apply(D, f), f)))
<1>0. /\ Poses!IsSample(s) /\ Poses!IsPose(port) /\ Poses!IsPose(plug) /\ Poses!IsPose(grip)
      /\ P = Poses!quaternion_matrix(port.q) /\ G = Poses!quaternion_matrix(plug.q)
      /\ T = Poses!quaternion_matrix(grip.q)
      /\ D = Poses!quaternion_matrix(
               Poses!Turn(s, <<Poses!Column(P, 1), Poses!Column(P, 2), Approach(P)>>))
      /\ built = Poses!build_pose(port, plug, grip, s.distance)
      /\ f = TcpFromPlug(P, G, plug, grip) /\ pose = Poses!apply_sample(built, port, s)
  BY DEF Planned
<1> DEFINE a == Approach(P)
           c1 == Poses!Column(P, 1)
           c2 == Poses!Column(P, 2)
           delta == Poses!Turn(s, <<c1, c2, a>>)
<1>1. /\ built.axis = a /\ built.tcpFromPlug = f
      /\ built.pose.t = Poses!Plus(Poses!Plus(port.t, Poses!Times(s.distance, a)), f)
      /\ Poses!Exact(built.pose.q)
      /\ Poses!quaternion_matrix(built.pose.q) = Poses!Rotate(Realign(P, G), T)
      /\ Rot(P) /\ Rot(G) /\ Rot(T)
  BY <1>0, SampleInts, BuiltIs
<1>2. Right(c1, c2, a) /\ Poses!port_axes(port, a) = <<c1, c2, a>>
  BY <1>0, AxesAre DEF Approach
<1>3. Poses!Exact(delta)
  BY <1>0, <1>2, TurnExact
<1>4. Rot(D)
  BY <1>0, <1>3, ExactRot
<1>5. pose = [t |-> Poses!Plus(built.pose.t,
                      Poses!Plus(Along(c1, c2, a, s.x, s.y, s.z), Poses!Minus(Poses!Apply(D, f), f))),
              q |-> Poses!multiply_quaternions(delta, built.pose.q)]
  <2> HIDE DEF a, c1, c2
  <2>1. Poses!port_axes(port, built.axis) = <<c1, c2, a>>
    BY <1>1, <1>2
  <2>2. D = Poses!quaternion_matrix(delta)
    BY <1>0 DEF a, c1, c2
  <2> QED BY <1>0, <1>1, <2>1, <2>2 DEF Poses!apply_sample, Along
<1> HIDE DEF a, c1, c2
<1>6. /\ Poses!Exact(Poses!multiply_quaternions(delta, built.pose.q))
      /\ Poses!quaternion_matrix(Poses!multiply_quaternions(delta, built.pose.q))
           = Poses!Rotate(D, Poses!Rotate(Realign(P, G), T))
  <2>1. D = Poses!quaternion_matrix(delta)
    BY <1>0 DEF a, c1, c2
  <2> QED BY <1>1, <1>3, <2>1, ExactProduct
<1>7. pose.t \in Vec
  <2>1. /\ port.t \in Vec /\ plug.t \in Vec /\ grip.t \in Vec /\ s.distance \in Int
        /\ s.x \in Int /\ s.y \in Int /\ s.z \in Int
    BY <1>0, SampleInts DEF Poses!IsPose, Vec
  <2>2. f \in Vec
    <3>1. Realign(P, G) \in Mat
      BY <1>1, RotTranspose, RotMat, RotateMat DEF Realign
    <3> QED BY <1>0, <2>1, <3>1, ApplyVec, MinusVec DEF TcpFromPlug
  <2>3. Poses!Apply(D, f) \in Vec /\ Poses!Minus(Poses!Apply(D, f), f) \in Vec
    BY <1>4, <2>2, RotMat, ApplyVec, MinusVec
  <2>4. Along(c1, c2, a, s.x, s.y, s.z) \in Vec
    BY <1>2, <2>1, AlongAxes
  <2>5. Poses!Plus(Poses!Plus(port.t, Poses!Times(s.distance, a)), f) \in Vec
    BY <1>2, <2>1, <2>2, TimesVec, PlusVec DEF Right
  <2>6. Poses!Plus(Along(c1, c2, a, s.x, s.y, s.z), Poses!Minus(Poses!Apply(D, f), f)) \in Vec
    BY <2>3, <2>4, PlusVec
  <2> QED BY <1>1, <1>5, <2>5, <2>6, PlusVec
<1>8. Poses!IsPose(pose)
  BY <1>5, <1>6, <1>7 DEF Poses!IsPose, Vec
<1> QED BY <1>1, <1>2, <1>4, <1>5, <1>6, <1>8 DEF a, c1, c2

\* The plug, held as it was, ends where the sample asks for.
LEMMA PlugThere ==
    ASSUME NEW s, NEW port, NEW plug, NEW grip, NEW P, NEW G, NEW T, NEW D, NEW built, NEW f,
           NEW pose, Planned(s, port, plug, grip, P, G, T, D, built, f, pose),
           NEW N, N = Poses!Compose(Poses!transform_matrix(pose),
                        Poses!Compose(Poses!Inverse(Poses!transform_matrix(grip)), Poses!transform_matrix(plug)))
    PROVE  /\ N.r = Poses!Rotate(D, P)
           /\ N.t = Poses!Plus(port.t, Along(Poses!Column(P, 1), Poses!Column(P, 2), Approach(P),
                                             s.x, s.y, s.distance + s.z))
<1> DEFINE a == Approach(P)
           c1 == Poses!Column(P, 1)
           c2 == Poses!Column(P, 2)
           K == Realign(P, G)
           shift == Along(c1, c2, a, s.x, s.y, s.z)
<1>0. /\ Poses!IsSample(s) /\ Poses!IsPose(port) /\ Poses!IsPose(plug) /\ Poses!IsPose(grip)
      /\ G = Poses!quaternion_matrix(plug.q) /\ T = Poses!quaternion_matrix(grip.q)
      /\ f = TcpFromPlug(P, G, plug, grip)
  BY DEF Planned
<1>1. Rot(P) /\ Rot(G) /\ Rot(T)
  BY SampledIs
<1>2. /\ Rot(D) /\ Right(c1, c2, a) /\ Poses!IsPose(pose)
      /\ Poses!quaternion_matrix(pose.q) = Poses!Rotate(D, Poses!Rotate(K, T))
      /\ pose.t = Poses!Plus(Poses!Plus(Poses!Plus(port.t, Poses!Times(s.distance, a)), f),
                         Poses!Plus(shift, Poses!Minus(Poses!Apply(D, f), f)))
  BY SampledIs
<1>3. /\ P \in Mat /\ G \in Mat /\ T \in Mat /\ D \in Mat /\ Poses!Transpose(T) \in Mat
      /\ Poses!Transpose(G) \in Mat /\ K \in Mat /\ Poses!Rotate(K, T) \in Mat
      /\ Poses!Rotate(D, Poses!Rotate(K, T)) \in Mat
  BY <1>1, <1>2, RotMat, TransposeMat, RotateMat DEF Realign
<1>4. /\ Poses!Rotate(T, Poses!Transpose(T)) = Poses!Identity
      /\ Poses!Rotate(Poses!Transpose(G), G) = Poses!Identity
  BY <1>1, RotTranspose
<1>5. port.t \in Vec /\ plug.t \in Vec /\ grip.t \in Vec
  BY <1>0 DEF Poses!IsPose, Vec
<1>6. /\ Motion(Poses!transform_matrix(pose)) /\ Motion(Poses!transform_matrix(grip))
      /\ Motion(Poses!transform_matrix(plug))
      /\ Poses!transform_matrix(pose).t = pose.t
      /\ Poses!transform_matrix(pose).r = Poses!Rotate(D, Poses!Rotate(K, T))
      /\ Poses!transform_matrix(grip).t = grip.t /\ Poses!transform_matrix(grip).r = T
      /\ Poses!transform_matrix(plug).t = plug.t /\ Poses!transform_matrix(plug).r = G
  BY <1>0, <1>2, PoseMotion
<1> DEFINE I == Poses!Inverse(Poses!transform_matrix(grip))
           W == Poses!Compose(I, Poses!transform_matrix(plug))
           TT == Poses!Transpose(T)
<1>7. Motion(I) /\ I.t = Poses!Times(-1, Poses!Apply(TT, grip.t)) /\ I.r = TT
  <2>1. /\ Motion(I)
        /\ I.t = Poses!Times(-1, Poses!Apply(Poses!Transpose(Poses!transform_matrix(grip).r),
                                               Poses!transform_matrix(grip).t))
        /\ I.r = Poses!Transpose(Poses!transform_matrix(grip).r)
    BY <1>6, InverseIs
  <2> QED BY <1>6, <2>1
<1> HIDE DEF I
<1>8. Motion(W) /\ W.t = Poses!Plus(I.t, Poses!Apply(TT, plug.t)) /\ W.r = Poses!Rotate(TT, G)
  BY <1>6, <1>7, ComposeIs
<1> HIDE DEF W
<1>9. /\ N.t = Poses!Plus(pose.t, Poses!Apply(Poses!Rotate(D, Poses!Rotate(K, T)), W.t))
      /\ N.r = Poses!Rotate(Poses!Rotate(D, Poses!Rotate(K, T)), Poses!Rotate(TT, G))
  <2>1. N = Poses!Compose(Poses!transform_matrix(pose), W)
    BY DEF W, I
  <2> QED BY <1>6, <1>8, <2>1, ComposeIs
<1> HIDE DEF a, c1, c2, K, shift
<1>10. N.r = Poses!Rotate(D, P)
  <2> DEFINE KT == Poses!Rotate(K, T)
             TG == Poses!Rotate(TT, G)
  <2>1. KT \in Mat /\ TG \in Mat
    BY <1>3, RotateMat
  <2>2. Poses!Rotate(Poses!Rotate(D, KT), TG) = Poses!Rotate(D, Poses!Rotate(KT, TG))
    BY <1>3, <2>1, RotateRotate
  <2>3. Poses!Rotate(KT, TG) = Poses!Rotate(K, Poses!Rotate(T, TG))
    BY <1>3, <2>1, RotateRotate
  <2>4. Poses!Rotate(T, TG) = G
    <3>1. Poses!Rotate(T, TG) = Poses!Rotate(Poses!Rotate(T, TT), G)
      BY <1>3, RotateRotate
    <3> QED BY <1>3, <1>4, <3>1, RotateIdentity
  <2>5. Poses!Rotate(K, G) = P
    <3>1. Poses!Rotate(K, G) = Poses!Rotate(P, Poses!Rotate(Poses!Transpose(G), G))
      BY <1>3, RotateRotate DEF K, Realign
    <3> QED BY <1>3, <1>4, <3>1, RotateIdentity
  <2> QED BY <1>9, <2>2, <2>3, <2>4, <2>5
<1> DEFINE g == Poses!Apply(TT, grip.t)
           p == Poses!Apply(TT, plug.t)
           m == Poses!Minus(grip.t, plug.t)
<1>11. g \in Vec /\ p \in Vec /\ m \in Vec /\ W.t \in Vec /\ I.t \in Vec
  BY <1>3, <1>5, <1>7, <1>8, ApplyVec, MinusVec DEF Motion
<1>12. Poses!Apply(T, W.t) = Poses!Times(-1, m)
  <2>1. \A v \in Vec : Poses!Apply(T, Poses!Apply(TT, v)) = v
    <3>1. \A v \in Vec : Poses!Apply(T, Poses!Apply(TT, v)) = Poses!Apply(Poses!Rotate(T, TT), v)
      BY <1>3, ApplyRotate
    <3> QED BY <1>4, <3>1, ApplyIdentity
  <2>2. Poses!Apply(T, W.t) = Poses!Plus(Poses!Apply(T, I.t), Poses!Apply(T, p))
    BY <1>3, <1>8, <1>11, ApplyPlus
  <2>3. Poses!Apply(T, I.t) = Poses!Times(-1, Poses!Apply(T, g))
    BY <1>3, <1>7, <1>11, ApplyTimes
  <2>4. Poses!Apply(T, W.t) = Poses!Plus(Poses!Times(-1, grip.t), plug.t)
    BY <1>5, <2>1, <2>2, <2>3
  <2> DEFINE u == grip.t
             v == plug.t
  <2>5. /\ u[1] \in Int /\ u[2] \in Int /\ u[3] \in Int /\ v[1] \in Int /\ v[2] \in Int /\ v[3] \in Int
    BY <1>5, VecIs
  <2> HIDE DEF u, v
  <2>6. Poses!Plus(Poses!Times(-1, u), v) = Poses!Times(-1, Poses!Minus(u, v))
    BY <2>5 DEF Poses!Plus, Poses!Times, Poses!Minus
  <2> QED BY <2>4, <2>6 DEF u, v
<1>13. f = Poses!Apply(K, m) /\ f \in Vec /\ Poses!Apply(D, f) \in Vec
  <2>1. f = Poses!Apply(K, m)
    BY <1>0 DEF TcpFromPlug, K
  <2> QED BY <1>3, <1>11, <2>1, ApplyVec
<1>14. Poses!Apply(Poses!Rotate(D, Poses!Rotate(K, T)), W.t) = Poses!Times(-1, Poses!Apply(D, f))
  <2>1. Poses!Apply(Poses!Rotate(D, Poses!Rotate(K, T)), W.t) = Poses!Apply(D, Poses!Apply(Poses!Rotate(K, T), W.t))
    BY <1>3, <1>11, ApplyRotate
  <2>2. Poses!Apply(Poses!Rotate(K, T), W.t) = Poses!Apply(K, Poses!Apply(T, W.t))
    BY <1>3, <1>11, ApplyRotate
  <2>3. Poses!Apply(K, Poses!Times(-1, m)) = Poses!Times(-1, f)
    BY <1>3, <1>11, <1>13, ApplyTimes
  <2>4. Poses!Apply(D, Poses!Times(-1, f)) = Poses!Times(-1, Poses!Apply(D, f))
    BY <1>3, <1>13, ApplyTimes
  <2> QED BY <1>12, <2>1, <2>2, <2>3, <2>4
<1>15. N.t = Poses!Plus(port.t, Along(c1, c2, a, s.x, s.y, s.distance + s.z))
  <2> DEFINE h == Poses!Apply(D, f)
             xa == Poses!Times(s.x, c1)
             ya == Poses!Times(s.y, c2)
  <2>1. c1 \in Vec /\ c2 \in Vec /\ a \in Vec /\ s.x \in Int /\ s.y \in Int /\ s.z \in Int /\ s.distance \in Int
    BY <1>0, <1>2, SampleInts DEF Right
  <2>2. xa \in Vec /\ ya \in Vec /\ h \in Vec
    BY <1>13, <2>1, TimesVec
  <2>3. N.t = Poses!Plus(Poses!Plus(Poses!Plus(Poses!Plus(port.t, Poses!Times(s.distance, a)), f),
                  Poses!Plus(Poses!Plus(Poses!Plus(xa, ya), Poses!Times(s.z, a)), Poses!Minus(h, f))),
                         Poses!Times(-1, h))
    BY <1>2, <1>9, <1>14 DEF shift, Along
  <2> HIDE DEF h, xa, ya
  <2>4. PICK b \in Int, z \in Int : b = s.distance /\ z = s.z
    BY <2>1
  <2> DEFINE o == port.t
  <2>5. o \in Vec
    BY <1>5
  <2> HIDE DEF o
  <2>6. /\ o[1] \in Int /\ o[2] \in Int /\ o[3] \in Int /\ a[1] \in Int /\ a[2] \in Int /\ a[3] \in Int
        /\ f[1] \in Int /\ f[2] \in Int /\ f[3] \in Int /\ h[1] \in Int /\ h[2] \in Int /\ h[3] \in Int
        /\ xa[1] \in Int /\ xa[2] \in Int /\ xa[3] \in Int /\ ya[1] \in Int /\ ya[2] \in Int /\ ya[3] \in Int
    BY <1>13, <2>1, <2>2, <2>5, VecIs
  <2>7. Poses!Plus(Poses!Plus(Poses!Plus(Poses!Plus(o, Poses!Times(b, a)), f),
                  Poses!Plus(Poses!Plus(Poses!Plus(xa, ya), Poses!Times(z, a)), Poses!Minus(h, f))), Poses!Times(-1, h))
          = Poses!Plus(o, Poses!Plus(Poses!Plus(xa, ya), Poses!Times(b + z, a)))
    BY <2>6 DEF Poses!Plus, Poses!Times, Poses!Minus
  <2>8. Along(c1, c2, a, s.x, s.y, s.distance + s.z) = Poses!Plus(Poses!Plus(xa, ya), Poses!Times(b + z, a))
    BY <2>4 DEF Along, xa, ya
  <2> QED BY <2>3, <2>4, <2>7, <2>8 DEF o
<1> QED BY <1>10, <1>15 DEF a, c1, c2

\* No motion changes nothing.
LEMMA ComposeNone ==
    ASSUME NEW A, Motion(A)
    PROVE  Motion(Shift(Poses!Zero)) /\ Poses!Compose(A, Shift(Poses!Zero)) = A
<1> DEFINE Z == Shift(Poses!Zero)
           C == Poses!Compose(A, Z)
<1>1. Poses!Zero \in Vec /\ A.t \in Vec /\ A.r \in Mat
  BY RotMat DEF Motion, Poses!Zero, Vec, Poses!Vectors
<1>2. Motion(Z) /\ Z.t = Poses!Zero /\ Z.r = Poses!Identity
  BY <1>1, RotIdentity, MakeMotion DEF Shift
<1> HIDE DEF Z
<1>3. Motion(C) /\ C.t = Poses!Plus(A.t, Poses!Apply(A.r, Poses!Zero)) /\ C.r = Poses!Rotate(A.r, Poses!Identity)
  BY <1>2, ComposeIs
<1>4. Poses!Plus(A.t, Poses!Apply(A.r, Poses!Zero)) = A.t
  <2> DEFINE R == A.r
             u == A.t
  <2>1. Entries(R) /\ u[1] \in Int /\ u[2] \in Int /\ u[3] \in Int /\ u = <<u[1], u[2], u[3]>>
    BY <1>1, MatEntries, VecIs
  <2> HIDE DEF R, u
  <2>2. Poses!Apply(R, Poses!Zero) = <<0, 0, 0>>
    BY <2>1 DEF Entries, Poses!Apply, Poses!Dot, Poses!Zero
  <2>3. Poses!Plus(u, <<0, 0, 0>>) = <<u[1], u[2], u[3]>>
    BY <2>1 DEF Poses!Plus
  <2>4. Poses!Plus(u, Poses!Apply(R, Poses!Zero)) = u
    BY <2>1, <2>2, <2>3
  <2> QED BY <2>4 DEF R, u
<1> HIDE DEF C
<1>5. C = A
  BY <1>1, <1>3, <1>4, RotateIdentity, SameMotion
<1> QED BY <1>2, <1>5 DEF C, Z

\* What the sample asks of a plug: its place, its turn, and the offset the row reports.
AtSample(s, port, axis, plug) ==
    LET axes == Poses!port_axes(port, axis)
    IN  /\ plug.t = Poses!Plus(port.t,
               Poses!Plus(Poses!Times(s.distance + s.z, axes[3]),
                          Poses!Plus(Poses!Times(s.x, axes[1]), Poses!Times(s.y, axes[2]))))
        /\ Poses!quaternion_matrix(plug.q)
             = Poses!Rotate(Poses!quaternion_matrix(Poses!Turn(s, axes)),
                            Poses!quaternion_matrix(port.q))
        /\ Poses!actual_sampling_offset(Poses!target_xyz(port, plug), port, axis, s.distance)
             = <<s.x, s.y, s.z>>

\* A plug at that place and turned so is where the sample asks for it.
LEMMA PlacedIs ==
    ASSUME NEW s, NEW port, NEW plug, NEW a, NEW P, Poses!IsSample(s), Poses!IsPose(port),
           P = Poses!quaternion_matrix(port.q), a = Approach(P),
           plug.t = Poses!Plus(port.t, Along(Poses!Column(P, 1), Poses!Column(P, 2), a,
                                             s.x, s.y, s.distance + s.z)),
           Poses!quaternion_matrix(plug.q)
             = Poses!Rotate(Poses!quaternion_matrix(
                   Poses!Turn(s, <<Poses!Column(P, 1), Poses!Column(P, 2), a>>)), P)
    PROVE  AtSample(s, port, a, plug)
<1> DEFINE c1 == Poses!Column(P, 1)
           c2 == Poses!Column(P, 2)
           axes == Poses!port_axes(port, a)
<1>1. Right(c1, c2, a) /\ axes = <<c1, c2, a>>
  BY AxesAre DEF Approach
<1>2. axes[1] = c1 /\ axes[2] = c2 /\ axes[3] = a
  BY <1>1
<1>3. port.t \in Vec /\ c1 \in Vec /\ c2 \in Vec /\ a \in Vec
  BY <1>1 DEF Right, Poses!IsPose, Vec
<1> HIDE DEF c1, c2, axes
<1>4. PICK x \in Int, y \in Int, z \in Int, d \in Int :
        s.x = x /\ s.y = y /\ s.z = z /\ s.distance = d
  BY SampleInts
<1>5. PICK h \in Int : h = d + z
  BY <1>4
<1> DEFINE along == Along(c1, c2, a, x, y, h)
           u == Poses!Times(x, c1)
           v == Poses!Times(y, c2)
           w == Poses!Times(h, a)
<1>6. plug.t = Poses!Plus(port.t, along)
  BY <1>4, <1>5 DEF c1, c2
<1>7. u \in Vec /\ v \in Vec /\ w \in Vec /\ along = Poses!Plus(Poses!Plus(u, v), w)
  BY <1>3, TimesVec DEF Along
<1>8. /\ along \in Vec /\ Poses!Dot(c1, along) = x /\ Poses!Dot(c2, along) = y
      /\ Poses!Dot(a, along) = h
  BY <1>1, AlongAxes
<1> HIDE DEF along, u, v, w
<1>9. plug.t = Poses!Plus(port.t, Poses!Plus(w, Poses!Plus(u, v)))
  <2>1. /\ u[1] \in Int /\ u[2] \in Int /\ u[3] \in Int /\ v[1] \in Int /\ v[2] \in Int
        /\ v[3] \in Int /\ w[1] \in Int /\ w[2] \in Int /\ w[3] \in Int
    BY <1>7, VecIs
  <2>2. Poses!Plus(Poses!Plus(u, v), w) = Poses!Plus(w, Poses!Plus(u, v))
    BY <2>1 DEF Poses!Plus
  <2> QED BY <1>6, <1>7, <2>2
<1> DEFINE label == Poses!target_xyz(port, plug)
<1>10. label = Poses!Times(-1, along)
  <2> DEFINE o == port.t
  <2>1. /\ o[1] \in Int /\ o[2] \in Int /\ o[3] \in Int
        /\ along[1] \in Int /\ along[2] \in Int /\ along[3] \in Int
    BY <1>3, <1>8, VecIs
  <2> HIDE DEF o
  <2>2. Poses!Minus(o, Poses!Plus(o, along)) = Poses!Times(-1, along)
    BY <2>1 DEF Poses!Minus, Poses!Plus, Poses!Times
  <2> QED BY <1>6, <2>2 DEF o, Poses!target_xyz
<1> HIDE DEF label
<1>11. /\ label \in Vec /\ Poses!Dot(label, c1) = (-1) * x /\ Poses!Dot(label, c2) = (-1) * y
       /\ Poses!Dot(label, a) = (-1) * h
  <2>1. label \in Vec
    BY <1>8, <1>10, TimesVec
  <2>2. \A r \in Vec : Poses!Dot(r, label) = (-1) * Poses!Dot(r, along)
    BY <1>8, <1>10, DotLinear
  <2>3. \A r \in Vec : Poses!Dot(label, r) = Poses!Dot(r, label)
    BY <2>1, DotSwap
  <2> QED BY <1>3, <1>8, <2>1, <2>2, <2>3
<1>12. Poses!actual_sampling_offset(label, port, a, d) = <<x, y, z>>
  <2>1. PICK e \in Int, f \in Int, g \in Int :
          /\ e = Poses!Dot(label, c1) /\ f = Poses!Dot(label, c2) /\ g = Poses!Dot(label, a)
    BY <1>3, <1>11, DotInt
  <2>2. Poses!actual_sampling_offset(label, port, a, d) = <<-e, -f, -g - d>>
    BY <1>2, <2>1 DEF axes, Poses!actual_sampling_offset
  <2>3. -e = x /\ -f = y /\ -g - d = z
    BY <1>5, <1>11, <2>1
  <2> QED BY <2>2, <2>3
<1>13. Poses!quaternion_matrix(plug.q)
         = Poses!Rotate(Poses!quaternion_matrix(Poses!Turn(s, axes)), Poses!quaternion_matrix(port.q))
  BY <1>1 DEF c1, c2
<1>14. plug.t = Poses!Plus(port.t, Poses!Plus(Poses!Times(s.distance + s.z, axes[3]),
                  Poses!Plus(Poses!Times(s.x, axes[1]), Poses!Times(s.y, axes[2]))))
  BY <1>2, <1>4, <1>5, <1>9 DEF u, v, w
<1> QED BY <1>4, <1>12, <1>13, <1>14 DEF AtSample, axes, label

\* Arriving without a slip, the plug is where the sample asks for it.
Arrived(pose, grip, tip, slip) ==
    Poses!pose_record(Poses!Compose(
        Poses!Compose(Poses!transform_matrix(pose),
                      Poses!Compose(Poses!Inverse(Poses!transform_matrix(grip)),
                                    Poses!transform_matrix(tip))), slip))

\* Where the tip is then is a pose, the one composed.
LEMMA ArrivedIs ==
    ASSUME NEW pose, NEW grip, NEW tip, NEW slip, Poses!IsPose(pose), Poses!IsPose(grip),
           Poses!IsPose(tip), Motion(slip)
    PROVE  /\ Poses!IsPose(Arrived(pose, grip, tip, slip))
           /\ Poses!transform_matrix(Arrived(pose, grip, tip, slip))
                = Poses!Compose(Poses!Compose(Poses!transform_matrix(pose),
                      Poses!Compose(Poses!Inverse(Poses!transform_matrix(grip)),
                                    Poses!transform_matrix(tip))), slip)
<1> DEFINE A == Poses!transform_matrix(pose)
           B == Poses!Inverse(Poses!transform_matrix(grip))
           C == Poses!transform_matrix(tip)
           BC == Poses!Compose(B, C)
           ABC == Poses!Compose(A, BC)
<1>1. Motion(A) /\ Motion(B) /\ Motion(C)
  BY PoseMotion, InverseIs
<1> HIDE DEF A, B, C
<1>2. Motion(BC)
  BY <1>1, ComposeIs
<1> HIDE DEF BC
<1>3. Motion(ABC)
  BY <1>1, <1>2, ComposeIs
<1> HIDE DEF ABC
<1>4. Motion(Poses!Compose(ABC, slip))
  BY <1>3, ComposeIs
<1>5. Arrived(pose, grip, tip, slip) = Poses!pose_record(Poses!Compose(ABC, slip))
  BY DEF Arrived, ABC, BC, A, B, C
<1>6. /\ Poses!IsPose(Arrived(pose, grip, tip, slip))
      /\ Poses!transform_matrix(Arrived(pose, grip, tip, slip)) = Poses!Compose(ABC, slip)
  BY <1>4, <1>5, RecordBack
<1> QED BY <1>6 DEF ABC, BC, A, B, C

\* The plug of a tip, and the plan that holds it.
PlugOf(tip, v) == Poses!shift_origin(tip, v)
PlanBuilt(port, tip, grip, v, s) == Poses!build_pose(port, PlugOf(tip, v), grip, s.distance)
PlanGoal(port, tip, grip, v, s) == Poses!apply_sample(PlanBuilt(port, tip, grip, v, s), port, s)

\* What is planned for a sample is a pose.
LEMMA GoalIs ==
    ASSUME NEW s, NEW port, NEW tip, NEW grip, NEW v \in Vec, Poses!IsSample(s),
           Poses!IsPose(port), Poses!IsPose(tip), Poses!IsPose(grip)
    PROVE  Poses!IsPose(PlanGoal(port, tip, grip, v, s))
<1> DEFINE plug == PlugOf(tip, v)
           built == PlanBuilt(port, tip, grip, v, s)
           P == Poses!quaternion_matrix(port.q)
           G == Poses!quaternion_matrix(plug.q)
           T == Poses!quaternion_matrix(grip.q)
           D == Poses!quaternion_matrix(Poses!Turn(s, <<Poses!Column(P, 1), Poses!Column(P, 2), Approach(P)>>))
           f == TcpFromPlug(P, G, plug, grip)
           pose == PlanGoal(port, tip, grip, v, s)
<1>1. Poses!IsPose(plug)
  BY ShiftIs DEF PlugOf
<1>2. Planned(s, port, plug, grip, P, G, T, D, built, f, pose)
  BY <1>1 DEF Planned, PlanBuilt, PlanGoal
<1> HIDE DEF plug, built, P, G, T, D, f, pose
<1>3. Poses!IsPose(pose)
  BY <1>2, SampledIs
<1> QED BY <1>3 DEF pose

\* A plan from the port ends at its sample when the plug does not slip.
LEMMA HitPlain ==
    ASSUME NEW s, NEW port, NEW tip, NEW grip, NEW v \in Vec, Poses!IsSample(s),
           Poses!IsPose(port), Poses!IsPose(tip), Poses!IsPose(grip)
    PROVE  AtSample(s, port, PlanBuilt(port, tip, grip, v, s).axis,
                    PlugOf(Arrived(PlanGoal(port, tip, grip, v, s), grip, tip, Shift(Poses!Zero)), v))
<1> DEFINE plug == PlugOf(tip, v)
           built == PlanBuilt(port, tip, grip, v, s)
           P == Poses!quaternion_matrix(port.q)
           G == Poses!quaternion_matrix(plug.q)
           T == Poses!quaternion_matrix(grip.q)
           D == Poses!quaternion_matrix(Poses!Turn(s, <<Poses!Column(P, 1), Poses!Column(P, 2), Approach(P)>>))
           f == TcpFromPlug(P, G, plug, grip)
           pose == PlanGoal(port, tip, grip, v, s)
           newTip == Arrived(pose, grip, tip, Shift(Poses!Zero))
           newPlug == PlugOf(newTip, v)
           A == Poses!transform_matrix(pose)
           B == Poses!Inverse(Poses!transform_matrix(grip))
           C == Poses!transform_matrix(tip)
           N == Poses!Compose(A, Poses!Compose(B, Poses!transform_matrix(plug)))
<1>1. /\ Poses!IsPose(plug) /\ Motion(Shift(v))
      /\ Poses!transform_matrix(plug) = Poses!Compose(C, Shift(v))
  BY ShiftIs DEF PlugOf
<1>2. Planned(s, port, plug, grip, P, G, T, D, built, f, pose)
  BY <1>1 DEF Planned, PlanBuilt, PlanGoal
<1>3. Poses!IsPose(pose)
  BY GoalIs
<1>4. Motion(A) /\ Motion(B) /\ Motion(C)
  BY <1>3, PoseMotion, InverseIs
<1>5. Motion(Poses!Compose(B, C))
  BY <1>4, ComposeIs
<1>6. Motion(Poses!Compose(A, Poses!Compose(B, C)))
  BY <1>4, <1>5, ComposeIs
<1>7. /\ Poses!IsPose(newTip)
      /\ Poses!transform_matrix(newTip) = Poses!Compose(A, Poses!Compose(B, C))
  <2> HIDE DEF pose
  <2>1. Motion(Shift(Poses!Zero))
    BY <1>4, ComposeNone
  <2>2. /\ Poses!IsPose(newTip)
        /\ Poses!transform_matrix(newTip)
             = Poses!Compose(Poses!Compose(A, Poses!Compose(B, C)), Shift(Poses!Zero))
    BY <1>3, <2>1, ArrivedIs
  <2> QED BY <1>6, <2>2, ComposeNone
<1> HIDE DEF newTip
<1>8. Poses!IsPose(newPlug) /\ Poses!transform_matrix(newPlug) = N
  <2>1. /\ Poses!IsPose(newPlug)
        /\ Poses!transform_matrix(newPlug) = Poses!Compose(Poses!transform_matrix(newTip), Shift(v))
    BY <1>7, ShiftIs DEF PlugOf
  <2> HIDE DEF A, B, C, newPlug, plug
  <2>2. Poses!Compose(Poses!Compose(A, Poses!Compose(B, C)), Shift(v))
          = Poses!Compose(A, Poses!Compose(Poses!Compose(B, C), Shift(v)))
    BY <1>1, <1>4, <1>5, ComposeCompose
  <2>3. Poses!Compose(Poses!Compose(B, C), Shift(v)) = Poses!Compose(B, Poses!Compose(C, Shift(v)))
    BY <1>1, <1>4, ComposeCompose
  <2> QED BY <1>1, <1>7, <2>1, <2>2, <2>3
<1>9. /\ newPlug.t = N.t /\ Poses!quaternion_matrix(newPlug.q) = N.r
  <2> HIDE DEF newPlug, N
  <2> QED BY <1>8, PoseMotion
<1>10. /\ N.r = Poses!Rotate(D, P)
       /\ N.t = Poses!Plus(port.t, Along(Poses!Column(P, 1), Poses!Column(P, 2), Approach(P),
                                         s.x, s.y, s.distance + s.z))
  <2>1. N = Poses!Compose(Poses!transform_matrix(pose), Poses!Compose(
              Poses!Inverse(Poses!transform_matrix(grip)), Poses!transform_matrix(plug)))
    OBVIOUS
  <2> HIDE DEF plug, built, P, G, T, D, f, pose, N
  <2> QED BY <1>2, <2>1, PlugThere
<1>11. built.axis = Approach(P)
  <2>1. P = Poses!quaternion_matrix(port.q)
    OBVIOUS
  <2>2. built.axis = Poses!Apply(P, <<0, 0, -1>>)
    BY DEF PlanBuilt, Poses!build_pose
  <2> QED BY <2>2, AxesAre DEF Approach
<1>12. AtSample(s, port, built.axis, newPlug)
  <2> DEFINE a == Approach(P)
  <2>1. /\ P = Poses!quaternion_matrix(port.q) /\ a = Approach(P)
        /\ newPlug.t = Poses!Plus(port.t, Along(Poses!Column(P, 1), Poses!Column(P, 2), a,
                                                s.x, s.y, s.distance + s.z))
        /\ Poses!quaternion_matrix(newPlug.q)
             = Poses!Rotate(Poses!quaternion_matrix(
                   Poses!Turn(s, <<Poses!Column(P, 1), Poses!Column(P, 2), a>>)), P)
    BY <1>9, <1>10
  <2> HIDE DEF a, P, newPlug
  <2>2. AtSample(s, port, a, newPlug)
    BY <2>1, PlacedIs
  <2> QED BY <1>11, <2>1, <2>2
<1> QED BY <1>12 DEF newTip

\* The camera a board-view pose puts in front of the board.
LEMMA RotationsRot ==
    ASSUME NEW R \in Poses!Rotations
    PROVE  Rot(R)
<1>1. PICK q \in Poses!Quaternions : R = Poses!quaternion_matrix(q)
  BY DEF Poses!Rotations
<1>2. Poses!Exact(q)
  BY DEF Poses!Quaternions
<1> QED BY <1>1, <1>2, ExactRot

\* The mounts and the slips are motions.
LEMMA IsMotionMotion ==
    ASSUME NEW M, Poses!IsMotion(M)
    PROVE  Motion(M)
<1>1. Rot(M.r)
  BY RotationsRot DEF Poses!IsMotion
<1> QED BY <1>1 DEF Poses!IsMotion, Motion, Vec

\* Down is exact.
LEMMA DownExact == Poses!Exact(<<1, 0, 0, 0>>)
<1>1. IsFour(<<1, 0, 0, 0>>, 1, 0, 0, 0)
  BY DEF IsFour
<1>2. Named(1, 1, 0, 0, 0, 1, 0, 0, 0, -1, 0, 0, 0, -1)
  BY DEF Named, IsNorm
<1>3. PICK m \in Int : m = -1
  OBVIOUS
<1>4. Named(1, 1, 0, 0, 0, 1, 0, 0, 0, m, 0, 0, 0, m)
  BY <1>2, <1>3
<1> QED BY <1>1, <1>4, NamedExact

\* The base's own axes are at right angles.
LEMMA IdentityRight == Right(<<1, 0, 0>>, <<0, 1, 0>>, <<0, 0, 1>>)
BY DEF Right, Poses!Dot, Vec, Poses!Vectors

\* The nearest a camera comes: a point seen from it, along its columns.
LEMMA SeenFrom ==
    ASSUME NEW M, Motion(M), NEW v \in Vec, NEW x \in Int, NEW y \in Int, NEW z \in Int,
           Poses!Minus(v, M.t) = Along(Poses!Column(M.r, 1), Poses!Column(M.r, 2),
                                       Poses!Column(M.r, 3), x, y, z)
    PROVE  Poses!Plus(Poses!Apply(Poses!Inverse(M).r, v), Poses!Inverse(M).t) = <<x, y, z>>
<1> DEFINE R == M.r
           T == Poses!Transpose(R)
           u == Poses!Apply(T, v)
           o == Poses!Apply(T, M.t)
           d == Poses!Minus(v, M.t)
<1>1. R \in Mat /\ Rot(R) /\ T \in Mat /\ M.t \in Vec /\ u \in Vec /\ o \in Vec
  BY RotMat, TransposeMat, ApplyVec DEF Motion
<1>2. Poses!Inverse(M).r = T /\ Poses!Inverse(M).t = Poses!Times(-1, o)
  BY InverseIs
<1>3. Poses!Apply(T, d) = Poses!Minus(u, o)
  BY <1>1, ApplyMinus
<1>4. Poses!Apply(T, d) = <<x, y, z>>
  <2>1. Right(Poses!Column(R, 1), Poses!Column(R, 2), Poses!Column(R, 3))
    BY <1>1, ColumnsRight
  <2>2. /\ Poses!Dot(Poses!Column(R, 1), d) = x /\ Poses!Dot(Poses!Column(R, 2), d) = y
        /\ Poses!Dot(Poses!Column(R, 3), d) = z
    BY <2>1, AlongAxes
  <2>3. /\ T[1] = Poses!Column(R, 1) /\ T[2] = Poses!Column(R, 2) /\ T[3] = Poses!Column(R, 3)
    BY DEF Poses!Transpose
  <2> HIDE DEF T, R, d
  <2> QED BY <2>2, <2>3 DEF Poses!Apply
<1> HIDE DEF T, R, d, u, o
<1>5. Poses!Plus(u, Poses!Times(-1, o)) = Poses!Minus(u, o)
  <2>1. /\ u[1] \in Int /\ u[2] \in Int /\ u[3] \in Int /\ o[1] \in Int /\ o[2] \in Int /\ o[3] \in Int
    BY <1>1, VecIs
  <2> QED BY <2>1 DEF Poses!Plus, Poses!Times, Poses!Minus
<1> QED BY <1>2, <1>3, <1>4, <1>5 DEF u

\* The camera as the TCP carries it, and where it is in the base.
LEMMA TcpOptical ==
    ASSUME NEW c, Motion(ToolTcp), Motion(Optical[c])
    PROVE  /\ Motion(Poses!TcpToOptical(c))
           /\ \A tf : Poses!IsPose(tf) =>
                /\ Motion(Poses!BaseCamera(tf, c))
                /\ Poses!BaseCamera(tf, c)
                     = Poses!Compose(Poses!transform_matrix(tf), Poses!TcpToOptical(c))
<1> DEFINE I == Poses!Inverse(ToolTcp)
<1>1. Motion(I)
  BY InverseIs
<1>2. Motion(Poses!Compose(I, Optical[c]))
  BY <1>1, ComposeIs
<1> HIDE DEF I
<1>3. SUFFICES ASSUME NEW tf, Poses!IsPose(tf)
               PROVE  /\ Motion(Poses!BaseCamera(tf, c))
                      /\ Poses!BaseCamera(tf, c)
                           = Poses!Compose(Poses!transform_matrix(tf), Poses!TcpToOptical(c))
  BY <1>2 DEF Poses!TcpToOptical, I
<1> DEFINE A == Poses!transform_matrix(tf)
<1>4. Motion(A)
  BY <1>3, PoseMotion
<1> HIDE DEF A
<1>5. Poses!Compose(Poses!Compose(A, I), Optical[c]) = Poses!Compose(A, Poses!Compose(I, Optical[c]))
  BY <1>1, <1>4, ComposeCompose
<1>6. Motion(Poses!Compose(A, Poses!Compose(I, Optical[c])))
  BY <1>2, <1>4, ComposeIs
<1> QED BY <1>5, <1>6 DEF A, I, Poses!BaseCamera, Poses!TcpToOptical

\* Where the board is for the center camera.
BoardSeen(board, tcp) ==
    LET ToBoard == Poses!base_to_camera(tcp, "center")
    IN  Poses!Plus(Poses!Apply(ToBoard.r, board.t), ToBoard.t)

\* A board-view pose puts the board where its sample says, for the center camera.
LEMMA HitView ==
    ASSUME NEW s, NEW board, Poses!IsSample(s), Poses!IsPose(board),
           Motion(ToolTcp), Motion(Optical["center"])
    PROVE  /\ Poses!IsPose(Poses!board_view_pose(board, s))
           /\ BoardSeen(board, Poses!board_view_pose(board, s)) = <<-s.x, -s.y, s.distance>>
<1> DEFINE q == Poses!multiply_quaternions(Poses!Turn(s, Poses!Identity), <<1, 0, 0, 0>>)
           R == Poses!quaternion_matrix(q)
           M == Poses!TcpToOptical("center")
           camera == Poses!Rotate(R, M.r)
           c1 == Poses!Column(camera, 1)
           c2 == Poses!Column(camera, 2)
           c3 == Poses!Column(camera, 3)
           origin == Poses!Plus(Poses!Plus(Poses!Minus(board.t, Poses!Times(s.distance, c3)),
                                           Poses!Times(s.x, c1)), Poses!Times(s.y, c2))
           m == Poses!Apply(R, M.t)
           pose == Poses!board_view_pose(board, s)
           B == Poses!BaseCamera(pose, "center")
<1>1. Poses!Exact(q) /\ Rot(R)
  <2>1. Poses!Turn(s, Poses!Identity) = Poses!Turn(s, <<<<1, 0, 0>>, <<0, 1, 0>>, <<0, 0, 1>>>>)
    BY DEF Poses!Identity
  <2>2. Poses!Exact(Poses!Turn(s, Poses!Identity))
    BY <2>1, IdentityRight, TurnExact
  <2>3. Poses!Exact(q)
    BY <2>2, DownExact, ExactProduct
  <2> QED BY <2>3, ExactRot
<1>2. Motion(M)
  BY TcpOptical
<1>3. pose = [t |-> Poses!Minus(origin, m), q |-> q]
  BY DEF Poses!board_view_pose
<1> HIDE DEF q, R, M, pose
<1>4. Rot(camera) /\ Right(c1, c2, c3)
  BY <1>1, <1>2, RotRotate, ColumnsRight DEF Motion
<1> HIDE DEF camera, c1, c2, c3
<1>5. PICK x \in Int, y \in Int, d \in Int : s.x = x /\ s.y = y /\ s.distance = d
  BY SampleInts
<1>6. PICK e \in Int, f \in Int : e = -x /\ f = -y
  OBVIOUS
<1> DEFINE b == board.t
           o == Poses!Plus(Poses!Plus(Poses!Minus(b, Poses!Times(d, c3)), Poses!Times(x, c1)),
                           Poses!Times(y, c2))
<1>7. origin = o
  BY <1>5
<1>8. b \in Vec /\ c1 \in Vec /\ c2 \in Vec /\ c3 \in Vec /\ m \in Vec
  BY <1>1, <1>2, <1>4, RotMat, ApplyVec DEF Right, Poses!IsPose, Vec, Motion
<1>9. o \in Vec
  BY <1>8, TimesVec, PlusVec, MinusVec
<1> HIDE DEF b, m
<1>10. Poses!Minus(b, o) = Along(c1, c2, c3, e, f, d)
  <2>1. /\ b[1] \in Int /\ b[2] \in Int /\ b[3] \in Int /\ c1[1] \in Int /\ c1[2] \in Int /\ c1[3] \in Int
        /\ c2[1] \in Int /\ c2[2] \in Int /\ c2[3] \in Int /\ c3[1] \in Int /\ c3[2] \in Int /\ c3[3] \in Int
    BY <1>8, VecIs
  <2> QED BY <1>6, <2>1 DEF Along, Poses!Minus, Poses!Plus, Poses!Times
<1> HIDE DEF origin, o
<1>11. Poses!IsPose(pose)
  BY <1>1, <1>3, <1>7, <1>8, <1>9, MinusVec DEF Poses!IsPose, Vec
<1>12. Motion(B) /\ B.t = o /\ B.r = camera
  <2>1. Motion(B) /\ B = Poses!Compose(Poses!transform_matrix(pose), M)
    BY <1>11, TcpOptical DEF M
  <2>2. /\ Poses!transform_matrix(pose).t = Poses!Minus(o, m) /\ Poses!transform_matrix(pose).r = R
        /\ Motion(Poses!transform_matrix(pose))
    BY <1>3, <1>7, <1>11, PoseMotion DEF R
  <2>3. B.t = Poses!Plus(Poses!Minus(o, m), m) /\ B.r = camera
    BY <1>2, <2>1, <2>2, ComposeIs DEF m, camera
  <2>4. /\ o[1] \in Int /\ o[2] \in Int /\ o[3] \in Int /\ m[1] \in Int /\ m[2] \in Int /\ m[3] \in Int
        /\ o = <<o[1], o[2], o[3]>>
    BY <1>8, <1>9, VecIs
  <2>5. Poses!Plus(Poses!Minus(o, m), m) = <<o[1], o[2], o[3]>>
    BY <2>4 DEF Poses!Plus, Poses!Minus
  <2> QED BY <2>1, <2>3, <2>4, <2>5
<1> HIDE DEF B
<1>13. Poses!Plus(Poses!Apply(Poses!Inverse(B).r, b), Poses!Inverse(B).t) = <<e, f, d>>
  BY <1>8, <1>10, <1>12, SeenFrom DEF c1, c2, c3
<1>14. BoardSeen(board, pose) = <<e, f, d>>
  BY <1>13 DEF BoardSeen, Poses!base_to_camera, B, b
<1>15. <<-s.x, -s.y, s.distance>> = <<e, f, d>>
  BY <1>5, <1>6
<1> QED BY <1>11, <1>14, <1>15 DEF pose

-----------------------------------------------------------------------------
(* What a capture writes, and what is read back                               *)

\* A pose follows from a residual, with a nominal motion between or without.
LEMMA JoinSeen ==
    ASSUME NEW B, NEW G, Motion(B), Motion(G)
    PROVE  Poses!Compose(B, Poses!se3_exp(Poses!Residual(B, G))) = G
<1>1. Motion(Poses!Inverse(B))
  BY InverseIs
<1>2. Motion(Poses!Compose(Poses!Inverse(B), G))
  BY <1>1, ComposeIs
<1>3. Poses!se3_exp(Poses!Residual(B, G)) = Poses!Compose(Poses!Inverse(B), G)
  BY <1>2, LogExp DEF Poses!Residual
<1> QED BY <1>3, ComposeInverse

\* A residual is the way from one motion to the other.
LEMMA ResidualIs ==
    ASSUME NEW A, NEW G, Motion(A), Motion(G)
    PROVE  /\ Poses!se3_exp(Poses!Residual(A, G)) = Poses!Compose(Poses!Inverse(A), G)
           /\ Motion(Poses!se3_exp(Poses!Residual(A, G)))
<1>1. Motion(Poses!Inverse(A))
  BY InverseIs
<1>2. Motion(Poses!Compose(Poses!Inverse(A), G))
  BY <1>1, ComposeIs
<1> QED BY <1>2, LogExp DEF Poses!Residual

\* Through a nominal motion and what the residual differs from it.
LEMMA JoinNominal ==
    ASSUME NEW A, NEW N, NEW G, NEW K, Motion(A), Motion(N), Motion(G),
           K = Poses!se3_exp(Poses!Residual(A, G))
    PROVE  Poses!Compose(Poses!Compose(A, N), Poses!se3_exp(Poses!transform_error(N, K).log)) = G
<1>1. K = Poses!Compose(Poses!Inverse(A), G) /\ Motion(K)
  BY ResidualIs
<1> DEFINE D == Poses!se3_exp(Poses!Residual(N, K))
<1>2. Motion(D) /\ Poses!Compose(N, D) = K
  BY <1>1, ResidualIs, JoinSeen
<1>3. Poses!se3_exp(Poses!transform_error(N, K).log) = D
  BY DEF Poses!transform_error, Poses!Residual
<1> HIDE DEF D
<1>4. Poses!Compose(Poses!Compose(A, N), D) = Poses!Compose(A, K)
  BY <1>2, ComposeCompose
<1>5. Poses!Compose(A, K) = G
  BY <1>1, ComposeInverse
<1> QED BY <1>3, <1>4, <1>5

\* A row joined with a row of trials.jsonl and the connector of constants.json.
Joined(row, v, t, c) ==
    LET M(record) == Poses!matrix_from_pose_record(record)
        base == Poses!transform_matrix(row.seen.port)
        plug == Poses!transform_matrix(PlugOf(row.seen.tip, v))
    IN  /\ Poses!Compose(M(t.port), Poses!se3_exp(row.res.port)) = base
        /\ Poses!Compose(Poses!Compose(M(row.poses.tcp), M(t.tcp_plug)),
                         Poses!se3_exp(row.res.tcp_plug)) = plug
        /\ Poses!Compose(Poses!Compose(M(row.poses.tip), M(c)),
                         Poses!se3_exp(row.res.connector)) = plug
        /\ Poses!Plus(plug.t, row.label) = base.t
        /\ \A o \in Poses!Cameras :
             LET camera == Poses!BaseCamera(row.seen.tcp, o)
             IN  /\ Poses!Compose(camera, Poses!se3_exp(row.res.camera_port[o])) = base
                 /\ Poses!Compose(camera, Poses!se3_exp(row.res.camera_plug[o])) = plug

IsScene(S) ==
    /\ S = [port |-> S.port, tip |-> S.tip, tcp |-> S.tcp, board |-> S.board]
    /\ Poses!IsPose(S.port) /\ Poses!IsPose(S.tip) /\ Poses!IsPose(S.tcp) /\ Poses!IsPose(S.board)

\* What save_sample writes of a scene, the nominal motions being N, P and T.
RowNotes(row, S, v, N, P, T) ==
    LET A == Poses!transform_matrix(S.tcp)
        I == Poses!transform_matrix(S.tip)
        B == Poses!transform_matrix(S.port)
        G == Poses!transform_matrix(PlugOf(S.tip, v))
    IN  /\ row.seen = S
        /\ row.poses.tcp = Poses!pose_record(A) /\ row.poses.tip = Poses!pose_record(I)
        /\ row.label = Poses!Minus(S.port.t, PlugOf(S.tip, v).t)
        /\ row.res.port = Poses!transform_error(P, B).log
        /\ row.res.connector
             = Poses!transform_error(N, Poses!se3_exp(Poses!Residual(I, G))).log
        /\ row.res.tcp_plug
             = Poses!transform_error(T, Poses!se3_exp(Poses!Residual(A, G))).log
        /\ row.res.camera_port
             = [o \in Poses!Cameras |-> Poses!Residual(Poses!BaseCamera(S.tcp, o), B)]
        /\ row.res.camera_plug
             = [o \in Poses!Cameras |-> Poses!Residual(Poses!BaseCamera(S.tcp, o), G)]

\* A row joins with the nominal motions it was written against.
LEMMA WrittenJoins ==
    ASSUME NEW row, NEW S, NEW v \in Vec, NEW N, NEW P, NEW T, NEW t, NEW c,
           IsScene(S), Motion(N), Motion(P), Motion(T), RowNotes(row, S, v, N, P, T),
           Poses!matrix_from_pose_record(t.port) = P,
           Poses!matrix_from_pose_record(t.tcp_plug) = T,
           Poses!matrix_from_pose_record(c) = N,
           Motion(ToolTcp), \A o \in Poses!Cameras : Motion(Optical[o])
    PROVE  Joined(row, v, t, c)
<1> DEFINE A == Poses!transform_matrix(S.tcp)
           I == Poses!transform_matrix(S.tip)
           B == Poses!transform_matrix(S.port)
           plug == PlugOf(S.tip, v)
           G == Poses!transform_matrix(plug)
<1>1. Poses!IsPose(plug)
  BY ShiftIs DEF PlugOf, IsScene
<1>2. Motion(A) /\ Motion(I) /\ Motion(B) /\ Motion(G)
  BY <1>1, PoseMotion DEF IsScene
<1>3. G.t = plug.t /\ B.t = S.port.t
  BY DEF Poses!transform_matrix
<1>4. /\ row.seen = S
      /\ row.poses.tcp = Poses!pose_record(A) /\ row.poses.tip = Poses!pose_record(I)
      /\ row.label = Poses!Minus(S.port.t, plug.t)
      /\ row.res.port = Poses!transform_error(P, B).log
      /\ row.res.connector
           = Poses!transform_error(N, Poses!se3_exp(Poses!Residual(I, G))).log
      /\ row.res.tcp_plug
           = Poses!transform_error(T, Poses!se3_exp(Poses!Residual(A, G))).log
      /\ row.res.camera_port
           = [o \in Poses!Cameras |-> Poses!Residual(Poses!BaseCamera(S.tcp, o), B)]
      /\ row.res.camera_plug
           = [o \in Poses!Cameras |-> Poses!Residual(Poses!BaseCamera(S.tcp, o), G)]
  BY DEF RowNotes
<1> HIDE DEF A, I, B, G, plug
<1>5. /\ Poses!matrix_from_pose_record(row.poses.tcp) = A
      /\ Poses!matrix_from_pose_record(row.poses.tip) = I
  BY <1>2, <1>4, RecordBack
<1>6. Poses!Compose(P, Poses!se3_exp(row.res.port)) = B
  <2>1. Poses!transform_error(P, B).log = Poses!Residual(P, B)
    BY DEF Poses!transform_error, Poses!Residual
  <2> QED BY <1>2, <1>4, <2>1, JoinSeen
<1>7. Poses!Compose(Poses!Compose(A, T), Poses!se3_exp(row.res.tcp_plug)) = G
  BY <1>2, <1>4, JoinNominal
<1>8. Poses!Compose(Poses!Compose(I, N), Poses!se3_exp(row.res.connector)) = G
  BY <1>2, <1>4, JoinNominal
<1>9. Poses!Plus(G.t, row.label) = B.t
  <2> DEFINE p == plug.t
             b == S.port.t
  <2>1. p \in Vec /\ b \in Vec
    BY <1>1 DEF IsScene, Poses!IsPose, Vec
  <2>2. /\ p[1] \in Int /\ p[2] \in Int /\ p[3] \in Int /\ b[1] \in Int /\ b[2] \in Int /\ b[3] \in Int
        /\ b = <<b[1], b[2], b[3]>>
    BY <2>1, VecIs
  <2> HIDE DEF p, b
  <2>3. Poses!Plus(p, Poses!Minus(b, p)) = <<b[1], b[2], b[3]>>
    BY <2>2 DEF Poses!Plus, Poses!Minus
  <2> QED BY <1>3, <1>4, <2>2, <2>3 DEF p, b
<1>10. ASSUME NEW o \in Poses!Cameras
       PROVE  LET camera == Poses!BaseCamera(row.seen.tcp, o)
              IN  /\ Poses!Compose(camera, Poses!se3_exp(row.res.camera_port[o])) = B
                  /\ Poses!Compose(camera, Poses!se3_exp(row.res.camera_plug[o])) = G
  <2> DEFINE camera == Poses!BaseCamera(S.tcp, o)
  <2>1. Motion(camera)
    BY TcpOptical DEF IsScene
  <2>2. row.res.camera_port[o] = Poses!Residual(camera, B) /\ row.res.camera_plug[o] = Poses!Residual(camera, G)
    BY <1>4
  <2>3. row.seen.tcp = S.tcp
    BY <1>4
  <2> HIDE DEF camera
  <2>4. /\ Poses!Compose(camera, Poses!se3_exp(row.res.camera_port[o])) = B
        /\ Poses!Compose(camera, Poses!se3_exp(row.res.camera_plug[o])) = G
    BY <1>2, <2>1, <2>2, JoinSeen
  <2> QED BY <2>3, <2>4 DEF camera
<1>11. /\ Poses!transform_matrix(row.seen.port) = B
       /\ Poses!transform_matrix(PlugOf(row.seen.tip, v)) = G
  BY <1>4 DEF B, G, plug
<1> QED BY <1>5, <1>6, <1>7, <1>8, <1>9, <1>10, <1>11 DEF Joined

\* Rows keep their sense as long as the nominal motions are the same.
LEMMA JoinedKept ==
    ASSUME NEW row, NEW v, NEW t, NEW c, NEW d, Joined(row, v, t, c),
           Poses!matrix_from_pose_record(c) = Poses!matrix_from_pose_record(d)
    PROVE  Joined(row, v, t, d)
BY DEF Joined

-----------------------------------------------------------------------------
(* The invariant of the poses                                                 *)

PosesTyped ==
    /\ Motion(ToolTcp) /\ Motion(Optical["center"])
    /\ \A c \in Poses!Cameras : Motion(Optical[c])
    /\ \A S \in Starts : IsScene(S)
    /\ \A s \in Samples : Poses!IsSample(s)
    /\ \A slip \in Slips : Motion(slip)
    /\ SfpOffset \in Vec /\ PoseCaptures \in Nat

\* The assumption on the constants, in motions.
LEMMA PosesAssumed == PosesTyped
<1>1. Poses!PoseAssumption
  BY MCLabelsAssumption
<1>2. \A S \in Starts : IsScene(S)
  BY <1>1 DEF Poses!PoseAssumption, IsScene
<1>3. /\ Motion(ToolTcp) /\ \A c \in Poses!Cameras : Motion(Optical[c])
      /\ \A slip \in Slips : Motion(slip)
  BY <1>1, IsMotionMotion DEF Poses!PoseAssumption
<1>4. /\ "center" \in Poses!Cameras /\ \A s \in Samples : Poses!IsSample(s)
      /\ SfpOffset \in Vec /\ PoseCaptures \in Nat
  BY <1>1 DEF Poses!PoseAssumption, Vec
<1> QED BY <1>2, <1>3, <1>4 DEF PosesTyped

\* A plan for a sample, from the scene it was made in.
PlanFor(S, v, s, p) ==
    p = [held |-> p.held, sample |-> s, axis |-> PlanBuilt(S.port, S.tip, S.tcp, v, s).axis,
         pose |-> IF s.view THEN Poses!board_view_pose(S.board, s)
                  ELSE PlanGoal(S.port, S.tip, S.tcp, v, s)]

\* What PlanHitsSample says of the scene a plan led to.
Hits(S, v, p) ==
    /\ p.held /\ ~p.sample.view => AtSample(p.sample, S.port, p.axis, PlugOf(S.tip, v))
    /\ p.sample.view
         => BoardSeen(S.board, S.tcp) = <<-p.sample.x, -p.sample.y, p.sample.distance>>

\* The constants and the row of the trial name motions.
ConnectorRow(c) == \E M : Motion(M) /\ c = <<Poses!pose_record(M)>>
TrialRow(t) ==
    \E P, T : /\ Motion(P) /\ Motion(T)
              /\ t = <<[port |-> Poses!pose_record(P), tcp_plug |-> Poses!pose_record(T)]>>
AllJoined(rr, v, t, c) ==
    /\ \E U : rr \in Seq(U)
    /\ rr # <<>> => t # <<>> /\ c # <<>>
    /\ \A k \in DOMAIN rr : Joined(rr[k], v, t[1], c[1])

PlanOf(g, S, v, p) ==
    /\ g = "go" => \E s \in Samples : PlanFor(S, v, s, p)
    /\ g = "there" => Hits(S, v, p)

FilesOK(v, c, t, rr) ==
    /\ c = <<>> \/ ConnectorRow(c)
    /\ t = <<>> \/ TrialRow(t)
    /\ AllJoined(rr, v, t, c)

PoseInv ==
    /\ IsScene(scene) /\ offset \in Vec
    /\ PlanOf(stage, scene, offset, plan)
    /\ FilesOK(offset, constants, trial, rows)

\* It holds at the start, with constants.json there or not.
LEMMA PoseInitially == Poses!Init => PoseInv
<1> SUFFICES ASSUME Poses!Init PROVE PoseInv
  OBVIOUS
<1>1. IsScene(scene) /\ stage = "plan" /\ trial = <<>> /\ rows = <<>>
  BY PosesAssumed DEF Poses!Init, PosesTyped
<1>2. \A o \in Poses!Offsets : o \in Vec
  <2>1. SfpOffset \in Vec /\ Poses!Zero \in Vec
    BY PosesAssumed DEF PosesTyped, Poses!Zero, Vec, Poses!Vectors
  <2> QED BY <2>1 DEF Poses!Offsets, Poses!plug_reference_offset
<1>3. offset \in Vec
  BY <1>2 DEF Poses!Init
<1>4. constants = <<>> \/ ConnectorRow(constants)
  <2> SUFFICES ASSUME constants # <<>> PROVE ConnectorRow(constants)
    OBVIOUS
  <2>1. PICK o \in Poses!Offsets : constants = <<Poses!pose_record([t |-> o, r |-> Poses!Identity])>>
    BY DEF Poses!Init
  <2>2. Motion([t |-> o, r |-> Poses!Identity])
    BY <1>2, RotIdentity, MakeMotion
  <2> QED BY <2>1, <2>2 DEF ConnectorRow
<1>5. AllJoined(rows, offset, trial, constants)
  <2>1. rows \in Seq(Int)
    BY <1>1
  <2> QED BY <1>1, <2>1 DEF AllJoined
<1>6. PlanOf(stage, scene, offset, plan)
  BY <1>1 DEF PlanOf
<1> QED BY <1>1, <1>3, <1>4, <1>5, <1>6 DEF PoseInv, FilesOK

\* A plan is made for a sample from the scene as it is.
LEMMA PosePlans ==
    ASSUME PoseInv, Poses!Plan
    PROVE  PoseInv'
<1>1. /\ scene' = scene /\ offset' = offset /\ constants' = constants /\ trial' = trial
      /\ rows' = rows /\ stage' = "go"
  BY DEF Poses!Plan
<1>2. PICK s \in Samples :
        LET built == Poses!build_pose(scene.port, Poses!Reference(scene), scene.tcp, s.distance)
        IN  plan' = [held |-> TRUE, sample |-> s, axis |-> built.axis,
                     pose |-> IF s.view THEN Poses!board_view_pose(scene.board, s)
                              ELSE Poses!apply_sample(built, scene.port, s)]
  BY DEF Poses!Plan
<1>3. Poses!Reference(scene) = PlugOf(scene.tip, offset)
  BY DEF Poses!Reference, PlugOf
<1>4. PlanFor(scene, offset, s, plan')
  BY <1>2, <1>3 DEF PlanFor, PlanBuilt, PlanGoal
<1>5. PlanOf(stage', scene', offset', plan')
  BY <1>1, <1>4 DEF PlanOf
<1> QED BY <1>1, <1>5 DEF PoseInv

\* Arriving, with or without a slip.
LEMMA PoseArrives ==
    ASSUME PoseInv, Poses!Arrive
    PROVE  PoseInv'
<1>1. /\ offset' = offset /\ constants' = constants /\ trial' = trial /\ rows' = rows
      /\ stage = "go" /\ stage' = "there"
  BY DEF Poses!Arrive
<1>2. PICK slip \in Slips :
        /\ scene' = [scene EXCEPT !.tcp = plan.pose,
                       !.tip = Arrived(plan.pose, scene.tcp, scene.tip, slip)]
        /\ plan' = [plan EXCEPT !.held = slip = [t |-> Poses!Zero, r |-> Poses!Identity]]
  BY DEF Poses!Arrive, Arrived
<1>3. PICK s \in Samples : PlanFor(scene, offset, s, plan)
  BY <1>1 DEF PoseInv, PlanOf
<1> DEFINE S == scene
           o == offset
           b == PlanBuilt(S.port, S.tip, S.tcp, o, s)
           g == PlanGoal(S.port, S.tip, S.tcp, o, s)
           w == Poses!board_view_pose(S.board, s)
           tip == Arrived(plan.pose, S.tcp, S.tip, slip)
           kept == slip = [t |-> Poses!Zero, r |-> Poses!Identity]
<1>4. /\ plan.sample = s /\ plan.axis = b.axis /\ (s.view => plan.pose = w)
      /\ (~s.view => plan.pose = g)
      /\ plan = [held |-> plan.held, sample |-> plan.sample, axis |-> plan.axis, pose |-> plan.pose]
  BY <1>3 DEF PlanFor
<1>5. Poses!IsSample(s) /\ Motion(slip) /\ Motion(ToolTcp) /\ Motion(Optical["center"])
  BY PosesAssumed DEF PosesTyped
<1>6. /\ S = [port |-> S.port, tip |-> S.tip, tcp |-> S.tcp, board |-> S.board] /\ o \in Vec
      /\ Poses!IsPose(S.port) /\ Poses!IsPose(S.tip) /\ Poses!IsPose(S.tcp) /\ Poses!IsPose(S.board)
  BY DEF PoseInv, IsScene
<1>7. Poses!IsPose(plan.pose)
  <2>1. Poses!IsPose(g)
    BY <1>5, <1>6, GoalIs
  <2>2. Poses!IsPose(w)
    BY <1>5, <1>6, HitView
  <2> HIDE DEF g, w
  <2> QED BY <1>4, <2>1, <2>2
<1>8. Poses!IsPose(tip)
  BY <1>5, <1>6, <1>7, ArrivedIs
<1>9. scene' = [port |-> S.port, tip |-> tip, tcp |-> plan.pose, board |-> S.board]
  <2> HIDE DEF tip
  <2> QED BY <1>2, <1>6 DEF tip
<1>10. plan' = [held |-> kept, sample |-> s, axis |-> b.axis, pose |-> plan.pose]
  <2> HIDE DEF kept, b
  <2> QED BY <1>2, <1>4 DEF kept
<1>11. IsScene(scene')
  <2> HIDE DEF tip
  <2> QED BY <1>6, <1>7, <1>8, <1>9 DEF IsScene
<1>12. ASSUME kept, ~s.view
       PROVE  AtSample(s, S.port, b.axis, PlugOf(tip, o))
  <2>1. slip = Shift(Poses!Zero)
    BY <1>12 DEF Shift
  <2>2. plan.pose = g
    BY <1>4, <1>12
  <2> QED BY <1>5, <1>6, <2>1, <2>2, HitPlain
<1>13. ASSUME s.view
       PROVE  BoardSeen(S.board, plan.pose) = <<-s.x, -s.y, s.distance>>
  <2>1. plan.pose = w
    BY <1>4, <1>13
  <2> QED BY <1>5, <1>6, <2>1, HitView
<1>14. Hits(scene', offset', plan')
  <2> HIDE DEF tip, kept, b
  <2>1. /\ (scene').port = S.port /\ (scene').tip = tip /\ (scene').tcp = plan.pose
        /\ (scene').board = S.board
    BY <1>9
  <2>2. /\ (plan').held = kept /\ (plan').sample = s /\ (plan').axis = b.axis
    BY <1>10
  <2> QED BY <1>1, <1>12, <1>13, <2>1, <2>2 DEF Hits
<1>15. PlanOf(stage', scene', offset', plan')
  BY <1>1, <1>14 DEF PlanOf
<1> QED BY <1>1, <1>6, <1>11, <1>15 DEF PoseInv

\* One more row that joins, the nominal motions being the ones of before.
LEMMA AppendJoined ==
    ASSUME NEW rr, NEW v, NEW t, NEW c, NEW u, NEW d, NEW row, AllJoined(rr, v, t, c),
           u # <<>>, d # <<>>, t # <<>> => u = t,
           c # <<>> => Poses!matrix_from_pose_record(c[1]) = Poses!matrix_from_pose_record(d[1]),
           Joined(row, v, u[1], d[1])
    PROVE  AllJoined(rr, v, u, d) /\ AllJoined(Append(rr, row), v, u, d)
<1>1. PICK U : rr \in Seq(U)
  BY DEF AllJoined
<1> DEFINE W == U \cup {row}
<1>2. rr \in Seq(W) /\ row \in W
  <2>1. Len(rr) \in Nat /\ rr \in [1 .. Len(rr) -> U]
    BY <1>1
  <2>2. rr \in [1 .. Len(rr) -> W]
    BY <2>1
  <2> QED BY <2>1, <2>2, SeqDef
<1>3. ASSUME NEW k \in DOMAIN rr
      PROVE  Joined(rr[k], v, u[1], d[1])
  <2>1. rr # <<>>
    BY <1>1, <1>3
  <2>2. Joined(rr[k], v, t[1], c[1]) /\ u = t /\ c # <<>>
    BY <1>3, <2>1 DEF AllJoined
  <2> QED BY <2>2, JoinedKept
<1>4. AllJoined(rr, v, u, d)
  BY <1>1, <1>3 DEF AllJoined
<1> HIDE DEF W
<1>5. Append(rr, row) \in Seq(W)
  BY <1>2
<1>6. \A k \in DOMAIN Append(rr, row) : Joined(Append(rr, row)[k], v, u[1], d[1])
  <2> SUFFICES ASSUME NEW k \in DOMAIN Append(rr, row)
               PROVE  Joined(Append(rr, row)[k], v, u[1], d[1])
    OBVIOUS
  <2>1. k \in 1 .. Len(rr) + 1 /\ Len(rr) \in Nat
    BY <1>2
  <2>2. CASE k = Len(rr) + 1
    <3>1. Append(rr, row)[k] = row
      BY <1>2, <2>1, <2>2
    <3> QED BY <3>1
  <2>3. CASE k # Len(rr) + 1
    <3>1. k \in DOMAIN rr /\ Append(rr, row)[k] = rr[k]
      BY <1>2, <2>1, <2>3
    <3> QED BY <1>3, <3>1
  <2> QED BY <2>2, <2>3
<1>7. AllJoined(Append(rr, row), v, u, d)
  BY <1>5, <1>6 DEF AllJoined
<1> QED BY <1>4, <1>7

\* The labels of the scene, by the names the row has for them.
LabelsOf(S) == Poses!pose_labels(S, S.port)
ResidualsOf(S) == Poses!residual_labels(S, S.port)
ConnectorOf(S) == Poses!se3_exp(ResidualsOf(S).tip_plug)
GraspOf(S) == Poses!se3_exp(ResidualsOf(S).tcp_plug)
PortOf(S) == Poses!matrix_from_pose_record(LabelsOf(S).port)
RowOf(S, p, N, P, T) ==
    LET res == Poses!normalized_residuals(ResidualsOf(S),
                 Poses!transform_error(N, ConnectorOf(S)).log,
                 Poses!transform_error(P, PortOf(S)).log,
                 Poses!transform_error(T, GraspOf(S)).log)
        label == Poses!target_xyz(S.port, Poses!Reference(S))
    IN  [label |-> label, res |-> res, seen |-> S,
         poses |-> [LabelsOf(S) EXCEPT !.port = <<>>],
         actual |-> Poses!actual_sampling_offset(label, S.port, p.axis,
                      IF p.sample.view THEN 0 ELSE p.sample.distance)]

\* The row of save_sample is written from the scene.
LEMMA RowWritten ==
    ASSUME NEW p, NEW N, NEW P, NEW T, IsScene(scene), offset \in Vec
    PROVE  /\ RowNotes(RowOf(scene, p, N, P, T), scene, offset, N, P, T)
           /\ Motion(ConnectorOf(scene)) /\ Motion(GraspOf(scene)) /\ Motion(PortOf(scene))
<1> DEFINE S == scene
           o == offset
           A == Poses!transform_matrix(S.tcp)
           I == Poses!transform_matrix(S.tip)
           B == Poses!transform_matrix(S.port)
           plug == PlugOf(S.tip, o)
           G == Poses!transform_matrix(plug)
           row == RowOf(S, p, N, P, T)
<1>1. Poses!Reference(S) = plug
  BY DEF Poses!Reference, PlugOf
<1>2. Motion(A) /\ Motion(I) /\ Motion(B) /\ Motion(G)
  <2>1. Poses!IsPose(plug)
    BY ShiftIs DEF PlugOf, IsScene
  <2> HIDE DEF plug
  <2> QED BY <2>1, PoseMotion DEF IsScene
<1>3. /\ ConnectorOf(S) = Poses!se3_exp(Poses!Residual(I, G))
      /\ GraspOf(S) = Poses!se3_exp(Poses!Residual(A, G))
      /\ ResidualsOf(S).camera_port
           = [c \in Poses!Cameras |-> Poses!Residual(Poses!BaseCamera(S.tcp, c), B)]
      /\ ResidualsOf(S).camera_plug
           = [c \in Poses!Cameras |-> Poses!Residual(Poses!BaseCamera(S.tcp, c), G)]
  BY <1>1 DEF ConnectorOf, GraspOf, ResidualsOf, Poses!residual_labels
<1>4. PortOf(S) = B
  <2>1. LabelsOf(S).port = Poses!pose_record(B)
    BY DEF LabelsOf, Poses!pose_labels
  <2> HIDE DEF B
  <2> QED BY <1>2, <2>1, RecordBack DEF PortOf
<1>5. /\ row.seen = S /\ row.label = Poses!Minus(S.port.t, plug.t)
      /\ row.poses = [LabelsOf(S) EXCEPT !.port = <<>>]
      /\ row.res.port = Poses!transform_error(P, PortOf(S)).log
      /\ row.res.connector = Poses!transform_error(N, ConnectorOf(S)).log
      /\ row.res.tcp_plug = Poses!transform_error(T, GraspOf(S)).log
      /\ row.res.camera_port = ResidualsOf(S).camera_port
      /\ row.res.camera_plug = ResidualsOf(S).camera_plug
  <2> HIDE DEF plug
  <2> QED BY <1>1 DEF RowOf, Poses!normalized_residuals, Poses!target_xyz
<1>6. row.poses.tcp = Poses!pose_record(A) /\ row.poses.tip = Poses!pose_record(I)
  BY <1>5 DEF LabelsOf, Poses!pose_labels
<1>7. Motion(ConnectorOf(S)) /\ Motion(GraspOf(S)) /\ Motion(PortOf(S))
  <2> HIDE DEF A, I, B, G
  <2> QED BY <1>2, <1>3, <1>4, ResidualIs
<1>8. RowNotes(row, S, o, N, P, T)
  <2> HIDE DEF row
  <2> QED BY <1>3, <1>4, <1>5, <1>6 DEF RowNotes
<1> QED BY <1>7, <1>8

\* A capture, whichever of its checks fails: constants and trial name what they named.
LEMMA PoseCaptured ==
    ASSUME PoseInv, Poses!Capture
    PROVE  PoseInv'
<1> DEFINE S == scene
           K == ConnectorOf(S)
           J == GraspOf(S)
           Q == PortOf(S)
           N == Poses!NominalConnector(K)
           record == Poses!TrialOf(Q, J)
           P == Poses!matrix_from_pose_record(record.port)
           T == Poses!matrix_from_pose_record(record.tcp_plug)
           row == RowOf(S, plan, N, P, T)
<1>1. IsScene(S) /\ offset \in Vec /\ FilesOK(offset, constants, trial, rows)
  BY DEF PoseInv
<1>2. /\ scene' = scene /\ offset' = offset /\ plan' = plan /\ stage' \in {"done", "plan"}
  BY DEF Poses!Capture
<1>3. \/ UNCHANGED <<constants, trial, rows>>
      \/ /\ constants' = <<Poses!pose_record(N)>> /\ trial' = <<record>>
         /\ (rows' = rows \/ rows' = Append(rows, row))
  BY DEF Poses!Capture, Poses!SaveSample, Poses!WriteFiles, Poses!WriteRow, Poses!Residuals,
         Poses!Nominal, Poses!Actual, RowOf, ConnectorOf, GraspOf, PortOf, ResidualsOf, LabelsOf
<1>4. Motion(K) /\ Motion(J) /\ Motion(Q)
  BY <1>1, RowWritten
<1>5. RowNotes(row, S, offset, N, P, T)
  BY <1>1, RowWritten
<1> HIDE DEF K, J, Q, row
<1>6. /\ Motion(N) /\ Poses!matrix_from_pose_record(Poses!pose_record(N)) = N
      /\ constants # <<>> => Poses!matrix_from_pose_record(constants[1]) = N
  <2>1. CASE constants = <<>>
    <3>1. N = K
      BY <2>1 DEF Poses!NominalConnector
    <3> QED BY <1>4, <2>1, <3>1, RecordBack
  <2>2. CASE constants # <<>>
    <3>1. PICK M : Motion(M) /\ constants = <<Poses!pose_record(M)>>
      BY <1>1, <2>2 DEF FilesOK, ConnectorRow
    <3>2. constants[1] = Poses!pose_record(M)
      BY <3>1
    <3>3. N = M
      BY <2>2, <3>1, <3>2, RecordBack DEF Poses!NominalConnector
    <3> QED BY <3>1, <3>2, <3>3, RecordBack
  <2> QED BY <2>1, <2>2
<1>7. /\ TrialRow(<<record>>) /\ Motion(P) /\ Motion(T)
      /\ trial # <<>> => <<record>> = trial
  <2>1. \E E, F : /\ Motion(E) /\ Motion(F)
                  /\ record = [port |-> Poses!pose_record(E), tcp_plug |-> Poses!pose_record(F)]
                  /\ trial # <<>> => <<record>> = trial
    <3>1. CASE trial = <<>>
      <4>1. record = [port |-> Poses!pose_record(Q), tcp_plug |-> Poses!pose_record(J)]
        BY <3>1 DEF Poses!TrialOf
      <4> QED BY <1>4, <3>1, <4>1
    <3>2. CASE trial # <<>>
      <4>1. PICK E, F : /\ Motion(E) /\ Motion(F)
                        /\ trial = <<[port |-> Poses!pose_record(E), tcp_plug |-> Poses!pose_record(F)]>>
        BY <1>1, <3>2 DEF FilesOK, TrialRow
      <4>2. record = [port |-> Poses!pose_record(E), tcp_plug |-> Poses!pose_record(F)]
        BY <3>2, <4>1 DEF Poses!TrialOf
      <4> QED BY <4>1, <4>2
    <3> QED BY <3>1, <3>2
  <2>2. PICK E, F : /\ Motion(E) /\ Motion(F)
                    /\ record = [port |-> Poses!pose_record(E), tcp_plug |-> Poses!pose_record(F)]
                    /\ trial # <<>> => <<record>> = trial
    BY <2>1
  <2> HIDE DEF record
  <2>3. P = E /\ T = F
    BY <2>2, RecordBack
  <2> QED BY <2>2, <2>3 DEF TrialRow
<1> HIDE DEF N, record, P, T
<1>8. Joined(row, offset, record, Poses!pose_record(N))
  <2>1. Motion(ToolTcp) /\ \A c \in Poses!Cameras : Motion(Optical[c])
    BY PosesAssumed DEF PosesTyped
  <2> QED BY <1>1, <1>5, <1>6, <1>7, <2>1, WrittenJoins DEF P, T
<1> DEFINE u == <<record>>
           d == <<Poses!pose_record(N)>>
<1>9. /\ u # <<>> /\ d # <<>> /\ u[1] = record /\ d[1] = Poses!pose_record(N)
      /\ trial # <<>> => u = trial
  BY <1>7
<1>10. ConnectorRow(d) /\ TrialRow(u)
  BY <1>6, <1>7 DEF ConnectorRow
<1> HIDE DEF u, d
<1>11. AllJoined(rows, offset, u, d) /\ AllJoined(Append(rows, row), offset, u, d)
  BY <1>1, <1>6, <1>8, <1>9, AppendJoined DEF FilesOK
<1>12. FilesOK(offset, constants', trial', rows')
  <2>1. CASE UNCHANGED <<constants, trial, rows>>
    BY <1>1, <2>1
  <2>2. CASE /\ constants' = d /\ trial' = u
             /\ (rows' = rows \/ rows' = Append(rows, row))
    BY <1>10, <1>11, <2>2 DEF FilesOK
  <2> QED BY <1>3, <2>1, <2>2 DEF u, d
<1>13. PlanOf(stage', scene', offset', plan')
  BY <1>2 DEF PlanOf
<1> QED BY <1>1, <1>2, <1>12, <1>13 DEF PoseInv

\* Every step keeps the invariant.
LEMMA PoseStep == PoseInv /\ [Poses!Next]_(Poses!vars) => PoseInv'
<1> SUFFICES ASSUME PoseInv, [Poses!Next]_(Poses!vars) PROVE PoseInv'
  OBVIOUS
<1>1. CASE UNCHANGED Poses!vars
  BY <1>1 DEF Poses!vars, PoseInv
<1> QED BY <1>1, PosePlans, PoseArrives, PoseCaptured DEF Poses!Next

\* motion.py:61-131, 241-378, dataset.py:1071-1254: what is planned is reached and what is
\* stored gives back what was seen, for every scene, sample, slip and mount.
THEOREM ReproducedHolds == Poses!Spec => []Reproduced
<1>1. PoseInv => Reproduced
  <2> SUFFICES ASSUME PoseInv PROVE Poses!PlanHitsSample /\ Poses!RowJoins
    BY DEF Reproduced
  <2>1. Poses!Reference(scene) = PlugOf(scene.tip, offset)
    BY DEF Poses!Reference, PlugOf
  <2>2. stage = "there" => Hits(scene, offset, plan)
    BY DEF PoseInv, PlanOf
  <2>3. Poses!PlanHitsSample
    BY <2>1, <2>2 DEF Poses!PlanHitsSample, Hits, AtSample, BoardSeen
  <2>4. \A k \in DOMAIN rows : Joined(rows[k], offset, trial[1], constants[1])
    BY DEF PoseInv, FilesOK, AllJoined
  <2>5. \A S : Poses!Reference(S) = PlugOf(S.tip, offset)
    BY DEF Poses!Reference, PlugOf
  <2>6. Poses!RowJoins
    BY <2>4, <2>5 DEF Poses!RowJoins, Joined
  <2> QED BY <2>3, <2>6
<1> QED BY <1>1, PoseInitially, PoseStep, PTL DEF Poses!Spec

=============================================================================
