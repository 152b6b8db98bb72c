----------------------------- MODULE MCConsole ------------------------------
(* A small instance of every part of Console for TLC.                      *)
EXTENDS Console

\* Inventory files: the roles as usual; both groups with the same children,
\* one of them in a cycle; and a machine that is listed under two roles.
MCFiles ==
    LET text(c, w, o, children) ==
            [hosts |-> [g \in Groups |-> CASE g = "coordinator" -> c [] g = "worker" -> w
                                           [] OTHER -> o],
             children |-> children]
        p == <<"p", "name">>
        q == <<"q", "name">>
    IN {text({p}, {q}, {}, {}),
        text({}, {}, {p, q}, {<<"coordinator", "other">>, <<"worker", "other">>,
                              <<"other", "worker">>}),
        text({p}, {q, <<"p", "address">>}, {}, {})}

\* An operator types a node by its name and its address.
MCTyped == {<<"name", "address">>}

\* A group and one in it.
MCGroupPaths == {<<"a">>, <<"a", "b">>}
=============================================================================
