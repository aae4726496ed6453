----------------------------- MODULE MCSandbox -----------------------------
(* Instances of Sandbox for TLC: a home h with the project p, the data       *)
(* directory d and the runtime directory r in it, all of it under /tmp.      *)
EXTENDS Sandbox, TLC

CONSTANTS linked, gone, alias

Home == <<"h">>
MCProject == <<"h", "p">>
Part == <<"h", "p", "a">>
Secret == <<"h", "p", "a", "k">>
MCDataDir == <<"h", "d">>
MCRuntimeDir == <<"h", "d", "r">>
MCExe == <<"h", "x">>
MCAgent == <<"h", "s">>
MCKeychains == <<"h", "l">>
MCSystemRoots == {<<"u">>}
Tool == <<"u", "t">>
Other == <<"u", "o">>
MCExecutables == {Tool, Other}
MCNetworkFiles == {<<"e", "c">>}

Listed == {<<>>, Home, MCProject, Part, Secret, MCDataDir, linked, gone}
MCWritten == Listed \union {Tool, Other, alias}
MCResolve ==
    [w \in MCWritten |-> CASE w = linked -> Part
                           [] w = alias -> Tool
                           [] w = gone -> Missing
                           [] OTHER -> w]

MCLimit == [read |-> 1, write |-> 1, protected |-> 4, commands |-> 2]

Lists(n) == UNION {[1 .. k -> Listed] : k \in 0 .. n}

Plain == [enabled |-> TRUE, network |-> FALSE, keychain |-> FALSE, ssh |-> FALSE,
          git |-> FALSE, file |-> FALSE]
Options == {
    [Plain EXCEPT !.enabled = FALSE],
    [Plain EXCEPT !.file = TRUE],
    [Plain EXCEPT !.git = TRUE],
    [Plain EXCEPT !.network = TRUE, !.ssh = TRUE],
    [Plain EXCEPT !.ssh = TRUE],
    [Plain EXCEPT !.keychain = TRUE]}

Argv(w, args) == [executable |-> w, args |-> args]
OneRule == [commands |-> <<Argv(alias, <<>>)>>, shell |-> {}]

\* Every policy with one command, and one policy with every choice of commands.
MCRequested ==
    {[read |-> r, write |-> w, protected |-> x] @@ o @@ OneRule :
        r \in Lists(1), w \in Lists(1), x \in Lists(2), o \in Options}
    \union
    {[read |-> <<>>, write |-> <<>>, protected |-> <<>>] @@ Plain @@
     [commands |-> c, shell |-> sh] :
        c \in {<<>>, <<Argv(gone, <<>>)>>, <<Argv(Home, <<>>)>>} \union
             {<<Argv(w, <<"a">>), Argv(v, args)>> :
                w, v \in MCExecutables \union {alias}, args \in {<<>>, <<"c", "s">>}},
        sh \in {{}} \union {{Argv(w, <<"c">>)} : w \in {Tool, Other, alias, gone}}}

MCCalled ==
    {Argv(w, args) : w \in {Tool, alias}, args \in {<<>>, <<"a">>}} \union {Argv(gone, <<>>)}
=============================================================================
