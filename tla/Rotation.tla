------------------------------ MODULE Rotation ------------------------------
(***************************************************************************)
(* The two ways to rotate an image: rotate_bit_matrix() in place and block *)
(* by block, and _rotate_bit_matrix() of the tester bit by bit.  Module    *)
(* RotationProgram runs them.                                              *)
(*                                                                         *)
(* A bit is the number of the pixel it came from, so that what is true of  *)
(* these images is true of all.  An image is a sequence of words in        *)
(* memory, a word in memory its pixels from the left; a word in a register *)
(* its bits from the most significant.  Words have 64 bits in the code,    *)
(* and any power of two up to that here.                                   *)
(***************************************************************************)
EXTENDS Integers, FiniteSets

VARIABLES
  machine,     \* the width of its words and bytes, and the sizes of the tests
  overshift,   \* what the build makes of a shift by the whole width
  row_size,    \* the words of a row
  image,       \* bit_matrix, which may be longer than the image that is rotated
  copy,        \* bit_matrix_copy
  at,          \* the indices of the loop that is running
  pc           \* where the program is

\* The widths that a word, or a group of its columns, may have
Widths == {1, 2, 4, 8, 16, 32, 64}

W    == machine.word
Bits == 0..(W - 1)
N    == W * row_size

-----------------------------------------------------------------------------
(* A word.  Zero is a bit that was shifted in, Both one that was ored from *)
(* two different bits.                                                     *)

Zero == -1
Both == -2

Or(v, w) == [c \in Bits |-> IF v[c] = w[c] \/ w[c] = Zero THEN v[c] ELSE IF v[c] = Zero THEN w[c] ELSE Both]

\* A shift by the width is undefined: the processor takes it for one by 0, a
\* compiler that knows the count may take it for 0.
Left(v, k) ==
  [c \in Bits |-> IF k = W THEN (IF overshift = "zero" THEN Zero ELSE v[c])
                  ELSE IF c + k < W THEN v[c + k] ELSE Zero]
Right(v, k) ==
  [c \in Bits |-> IF k = W THEN (IF overshift = "zero" THEN Zero ELSE v[c])
                  ELSE IF c >= k THEN v[c - k] ELSE Zero]

\* __builtin_bswap64(): the bytes in the other order
bswap(v) ==
  [c \in Bits |-> v[((W \div machine.byte) - 1 - (c \div machine.byte)) * machine.byte + (c % machine.byte)]]

\* A word in memory has its first byte last in a register, and back.
Load(v)  == bswap(v)
Store(v) == bswap(v)

-----------------------------------------------------------------------------
(* A block of W words, rotated in registers.                               *)

\* All rows to the left by their index and 1
FirstRows(m) == [r \in Bits |-> Or(Left(m[r], r + 1), Right(m[r], W - 1 - r))]

\* The columns that are not to stay take the bits from g rows above.
Down(m, g, stay) ==
  [r \in Bits |-> [c \in Bits |-> m[IF c \in stay THEN r ELSE IF r < g THEN r + W - g ELSE r - g][c]]]

\* Groups of W/2 columns, of W/4, ... and single columns: every other one goes
\* down by its width.  In the end all go down by 1.
rotate_columns(m) ==
  LET Stage[g \in Widths \cap 1..W] ==
        IF g = W THEN m ELSE Down(Stage[2 * g], g, {c \in Bits : (c \div g) % 2 = 0})
  IN Down(Stage[1], 1, {})

\* All rows to the left by their index
LastRows(m) == [r \in Bits |-> Or(Left(m[r], r), Right(m[r], W - r))]

row_column_row(m) == LastRows(rotate_columns(FirstRows(m)))

\* The block whose first word is at o, in registers
Block(o) == [k \in Bits |-> bswap(Load(image[o + k * row_size]))]

\* The image with blocks written to it; they start at the words of their domain.
Written(blocks) ==
  LET At(x) == {o \in DOMAIN blocks : \E k \in Bits : x = o + k * row_size} IN
  [x \in DOMAIN image |->
     IF At(x) = {} THEN image[x]
     ELSE LET o == CHOOSE o \in At(x) : TRUE IN Store(bswap(blocks[o][(x - o) \div row_size]))]

-----------------------------------------------------------------------------
(* rotate_bit_matrix()                                                     *)

\* Mutant: the rows of blocks are not rounded up.
big_N_Down == N
big_N == IF N % (2 * W) = 0 THEN N ELSE N + 2 * W

\* Mutant: every fourth block is taken from the row above.
offset_D_Above(j, i) == W * (row_size - i - 2) * row_size + j

\* The blocks that change places with the block j, i of the first quadrant
offset_A(j, i) == W * j * row_size + i
offset_B(j, i) == W * i * row_size + row_size - j - 1
offset_C(j, i) == W * (row_size - j - 1) * row_size + row_size - i - 1
offset_D(j, i) == W * (row_size - i - 1) * row_size + j

Start == [j |-> 0, i |-> 0]
Done(j) == j >= big_N \div (2 * W)

\* The iteration of both loops after this one
After(j, i) == IF i + 1 < N \div (2 * W) THEN [j |-> j, i |-> i + 1] ELSE [j |-> j + 1, i |-> 0]

\* An image of one word by row
RotateOnly ==
  /\ pc = "rotate" /\ N = W
  /\ image' = Written([o \in {0} |-> row_column_row(Block(o))])
  /\ pc' = "rotated"
  /\ UNCHANGED <<machine, overshift, row_size, copy, at>>

\* All four are read before one is written.
RotateFour ==
  /\ pc = "rotate" /\ N # W /\ ~Done(at.j)
  /\ LET a == offset_A(at.j, at.i)
         b == offset_B(at.j, at.i)
         c == offset_C(at.j, at.i)
         d == offset_D(at.j, at.i)
         from(o) == CASE o = a -> d [] o = d -> c [] o = c -> b [] o = b -> a
     IN image' = Written([o \in {a, b, c, d} |-> row_column_row(Block(from(o)))])
  /\ at' = After(at.j, at.i)
  /\ UNCHANGED <<machine, overshift, row_size, copy, pc>>

\* The block in the middle, if there is one
RotateMiddle ==
  /\ pc = "rotate" /\ N # W /\ Done(at.j)
  /\ LET j == N \div (2 * W)
         o == W * j * row_size + j
     IN image' = IF row_size % 2 = 1 THEN Written([w \in {o} |-> row_column_row(Block(w))]) ELSE image
  /\ at' = Start /\ pc' = "rotated"
  /\ UNCHANGED <<machine, overshift, row_size, copy>>

-----------------------------------------------------------------------------
(* _rotate_bit_matrix(), the rotation of the tester                        *)

get_bit(img, i, j) == img[j * row_size + (i \div W)][i % W]
set_bit(img, i, j, value) == [img EXCEPT ![j * row_size + (i \div W)][i % W] = value]

\* Where the tester's own rotation puts pixel i of row j
Quarter(i, j) == [i |-> N - j - 1, j |-> i]

\* One round of the loops of _rotate_bit_matrix(): the bit goes round the four quadrants.
Stock ==
  /\ pc = "stock"
  /\ LET Carry[q \in 0..4] ==
           IF q = 0 THEN [img |-> copy, i |-> at.i, j |-> at.j, tmp_bit |-> get_bit(copy, at.i, at.j)]
           ELSE LET last == Carry[q - 1]
                    next == Quarter(last.i, last.j)
                IN [img     |-> set_bit(last.img, next.i, next.j, last.tmp_bit),
                    i       |-> next.i, j |-> next.j,
                    tmp_bit |-> get_bit(last.img, next.i, next.j)]
     IN copy' = Carry[4].img
  /\ at' = IF at.i + 1 < N \div 2 THEN [at EXCEPT !.i = @ + 1] ELSE [j |-> at.j + 1, i |-> 0]
  /\ pc' = IF at'.j = N \div 2 THEN "compare" ELSE "stock"
  /\ UNCHANGED <<machine, overshift, row_size, image>>

Rotate == RotateOnly \/ RotateFour \/ RotateMiddle \/ Stock

-----------------------------------------------------------------------------
(* What a turn is.                                                         *)

Pixel(x, p) == x * W + p

\* The image of so many words by row, every bit another one
NewImage(rows) == [x \in 0..(rows * W * rows - 1) |-> [p \in Bits |-> Pixel(x, p)]]

\* The pixel of the generated image that k turns to the right bring to x, p
Origin(k, x, p) ==
  LET r == x \div row_size
      c == (x % row_size) * W + p
  IN CASE k = 0 -> r * N + c
       [] k = 1 -> (N - 1 - c) * N + r
       [] k = 2 -> (N - 1 - r) * N + (N - 1 - c)
       [] k = 3 -> c * N + (N - 1 - r)

TurnedAt(img, k, words) == \A x \in words : \A p \in Bits : img[x][p] = Origin(k, x, p)
=============================================================================
