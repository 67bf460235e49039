-------------------------- MODULE MCCollisionWorld --------------------------
(***************************************************************************)
(* Two or three lines in a box of four by four.                            *)
(***************************************************************************)
EXTENDS CollisionWorld

Square == [xmin |-> 0, xmax |-> 4, ymin |-> 0, ymax |-> 4]

Line(p, d, v) == [p1 |-> p, p2 |-> Vec_add(p, d), velocity |-> v]

Shifts == {<<0, 0>>, <<1, 0>>, <<-2, 1>>, <<0, -2>>, <<2, 2>>}

InBox(l) == \A p \in {l.p1, l.p2} : p[1] \in 0..4 /\ p[2] \in 0..4

Some(ps, ds, vs) == {l \in {Line(p, d, v) : p \in ps, d \in ds, v \in vs} : InBox(l)}

\* One line in the middle, the other anywhere, or both running into each other
\* along themselves
Pair == {<<Line(<<0, 2>>, <<1, 0>>, <<1, 0>>), Line(<<2, 2>>, <<1, 0>>, <<-1, 0>>)>>} \cup
        {<<l1, l2>> : l1 \in Some({<<1, 2>>, <<2, 2>>}, {<<2, 0>>, <<1, -2>>, <<-1, -1>>}, {<<0, 0>>, <<1, 0>>, <<-1, 2>>}),
                      l2 \in Some((0..4) \X (0..4), {<<-1, 0>>, <<1, 2>>, <<0, -2>>, <<1, 1>>}, Shifts)}

\* Two lines on one line, which the solver cannot tell apart, and a third that
\* runs into one of them, or into neither
Triple == {<<Line(<<1, 2>>, <<1, 0>>, <<1, 0>>), Line(<<2, 2>>, <<1, 0>>, <<0, 0>>), l3>> :
             l3 \in Some({<<1, 1>>, <<1, 3>>, <<2, 0>>, <<3, 3>>}, {<<1, 0>>, <<1, 1>>, <<0, 1>>}, {<<0, 0>>, <<1, 0>>, <<0, -1>>, <<-1, 1>>})}

Cases == Pair \cup Triple
=============================================================================
