------------------------------ MODULE BlockPool ------------------------------
(***************************************************************************)
(* What a client of malloc, realloc and free may rely on, with no heap     *)
(* behind it: every block handed out is aligned, inside the pool and apart *)
(* from the others; what the client wrote is found again until it frees or *)
(* shrinks the block; a request may be refused and then nothing changes.   *)
(*                                                                         *)
(* The one way out is the allocator running past its memory without        *)
(* noticing; then the pool is undefined and promises nothing more.         *)
(***************************************************************************)
EXTENDS Integers

CONSTANTS PoolSize, Alignment, Ids, Sizes

VARIABLES owed,      \* what each id holds: where, how large, how many bytes of its own data
          undefined

Absent == [ptr |-> 0, size |-> 0, data |-> 0]

Smaller(m, n) == IF m < n THEN m ELSE n

\* A block of size bytes for id at p, whatever the other blocks are
Room(id, p, size) ==
  /\ 0 < p /\ p % Alignment = 0 /\ p + size <= PoolSize
  /\ \A other \in Ids \ {id} : owed[other] # Absent =>
       p + size <= owed[other].ptr \/ owed[other].ptr + owed[other].size <= p

Init == owed = [id \in Ids |-> Absent] /\ undefined = FALSE

Take(id, size) ==
  /\ owed[id] = Absent
  /\ \E p \in 0..PoolSize :
       /\ Room(id, p, size)
       /\ owed' = [owed EXCEPT ![id] = [ptr |-> p, size |-> size, data |-> 0]]

Fill(id) ==
  /\ owed[id] # Absent
  /\ owed' = [owed EXCEPT ![id].data = owed[id].size]

\* The block may move; of its data as much is kept as still fits.
Resize(id, size) ==
  /\ owed[id] # Absent
  /\ \E p \in 0..PoolSize :
       /\ Room(id, p, size)
       /\ owed' = [owed EXCEPT ![id] = [ptr |-> p, size |-> size,
                                        data |-> Smaller(owed[id].data, size)]]

Release(id) ==
  /\ owed[id] # Absent
  /\ owed' = [owed EXCEPT ![id] = Absent]

StartOver == owed' = [id \in Ids |-> Absent]

RunsOut == undefined' = TRUE

Next ==
  /\ ~undefined
  /\ \/ RunsOut
     \/ /\ \/ \E id \in Ids : Fill(id) \/ Release(id)
           \/ \E id \in Ids, size \in Sizes : Take(id, size) \/ Resize(id, size)
           \/ StartOver
        /\ UNCHANGED undefined

Spec == Init /\ [][Next]_<<owed, undefined>>
=============================================================================
