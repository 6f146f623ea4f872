----------------------- MODULE MCRetainedPermissions -----------------------
(***************************************************************************)
(* RetainedPermissions on small programs.                                  *)
(***************************************************************************)
EXTENDS RetainedPermissions

Leaf == [own |-> TRUE, calls |-> {}]
Calls(fs) == [own |-> FALSE, calls |-> fs]
None == [own |-> FALSE, calls |-> {0}]

\* The programs that declare the functions that are not None; nobody calls others.
Declared(choices) ==
    {prog \in {[f \in {g \in DOMAIN c : c[g] # None} |-> c[f]] : c \in choices} :
        \A f \in DOMAIN prog : prog[f].calls \subseteq DOMAIN prog}

\* Four functions, of which the last two may be missing; cycles of up to three.
Cyclic ==
    Declared({<<a, b, c, d>> : a \in {Leaf, Calls({})},
                               b \in {Leaf, Calls({1, 4}), Calls({2, 3})},
                               c \in {None, Calls({}), Calls({2}), Calls({4})},
                               d \in {None, Leaf, Calls({1, 3}), Calls({2})}})

\* leaf, ping and pong: the leaf loses its permission.
PingPong == {<<a, Calls({1, 3}), Calls({2})>> : a \in {Leaf, Calls({})}}

\* A chain of calls to later functions, and a function that begins to call into it.
Chain == {<<a, Calls({3}), Leaf, d>> : a \in {Calls({2}), Calls({2, 3})}, d \in {Calls({}), Calls({1})}}

=============================================================================
