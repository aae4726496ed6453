------------------------------ MODULE Sandbox ------------------------------
(***************************************************************************)
(* The life of a profile's command rules (src/src/protocol.rs) and sandbox *)
(* policy (src/src/sandbox.rs) from the file the client reads to the       *)
(* confined command: the client validates it, the service adds what it     *)
(* protects (src/src/service.rs: protect_runtime) and validates again; a   *)
(* request names a command, which the service looks up and approves; the   *)
(* guardian validates and approves once more, perhaps much later, and      *)
(* builds the mounts of bubblewrap or the rules of sandbox-exec.           *)
(*                                                                         *)
(* A path is a sequence of names.  The file system resolves a written path *)
(* to the path without links, or to Missing; a path may be removed, or a   *)
(* link put elsewhere, on the way.  Modes and aliases are not modelled.    *)
(***************************************************************************)
EXTENDS Filter, GitHelper, SequencesExt, FiniteSets

CONSTANTS
    Written,        \* paths as a profile writes them
    Resolve,        \* the path each of them leads to, or Missing
    Missing,
    Project,        \* the project of the profile
    DataDir,        \* the directory of analytics_path
    RuntimeDir,     \* the directory of journal_path
    CredentialFile, \* the file of a file:// reference
    Exe,            \* current_exe()
    Agent,          \* ssh_auth_sock
    Keychains,      \* Library/Keychains in the user's home
    SystemRoots,    \* /usr, /bin ...
    NetworkFiles,   \* resolver and certificate files
    Temporary,      \* /tmp, fresh on Linux
    Executables,    \* files somebody may execute
    Limit,          \* paths per list, and rules: 64, 32, 128, 64
    Words,          \* bound: arguments of commands, scripts for the shell
    Requested,      \* bound: the profiles considered
    Called          \* bound: the commands that are asked for

\* Where a path leads.
Leads(w) == IF w \in Written THEN Resolve[w] ELSE w

Existing == {Resolve[w] : w \in Written} \ {Missing}
Links == {w \in Written : Resolve[w] \notin {w, Missing}}

\* What the system and the service need: nobody removes it.
Kept == SystemRoots \union NetworkFiles \union {Project, Agent}

Places ==
    Existing \union Kept \union {DataDir, RuntimeDir, CredentialFile, Exe, Keychains, Temporary}
Paths == UNION {Prefixes(p) : p \in Places}
Names == UNION {Range(p) : p \in Places}

\* A path that is written without links leads to itself.  The agent is a socket.
ASSUME SandboxAssumption ==
    /\ Places \subseteq Seq(Names) /\ Missing \notin Paths
    /\ Resolve \in [Written -> Paths \union {Missing}]
    /\ \A p \in Paths : p \in Written => Resolve[p] = p
    /\ Executables \subseteq Paths
    /\ \A p \in Paths : IsPrefix(Agent, p) => p = Agent
    /\ Limit \in [{"read", "write", "protected", "commands"} -> Nat]

\* Commands: of a rule, of the shell, of a request.
Argvs(paths) == [executable : paths, args : Seq(Words)]

\* Profiles as they are written: lists may repeat and overlap.
ASSUME RequestAssumption ==
    /\ Requested \subseteq
            [enabled : BOOLEAN, network : BOOLEAN, keychain : BOOLEAN, ssh : BOOLEAN,
             git : BOOLEAN, file : BOOLEAN, read : Seq(Written), write : Seq(Written),
             protected : Seq(Written), commands : Seq(Argvs(Written)),
             shell : SUBSET Argvs(Written)]
    /\ Called \subseteq Argvs(Written)

VARIABLES
    platform,   \* linux, macos
    profile,    \* the policy as it stands, with the parts of the profile it meets
    stage,      \* written, sent, accepted, called, reserved, checked, prepared;
                \* refused, unapproved, denied
    argv,       \* the command of the request
    command,    \* what the backend was told
    removed,    \* paths that are gone
    moved,      \* links that lead elsewhere now
    asked,      \* history: the profile as it was written
    call        \* history: the command a request named, if any did

files == <<removed, moved>>
history == <<asked, call>>
vars == <<platform, profile, stage, argv, command, files, history>>

Policy == {"read", "write", "protected"}
NoArgv == [executable |-> Missing, args |-> <<>>]
NoCommand == [mounts |-> <<>>, rules |-> <<>>, filtered |-> FALSE, program |-> NoArgv]

If(condition, paths) == IF condition THEN paths ELSE {}

Under(p, S) == \E q \in S : IsPrefix(q, p)

-----------------------------------------------------------------------------
(* validate *)

Exists(p) == \A q \in removed : ~IsPrefix(q, p)

\* Where a path leads, now and when the profile was read.
LeadsNow(w) == IF w \in DOMAIN moved THEN moved[w] ELSE Leads(w)

\* fs::canonicalize.
Real(w) ==
    LET p == LeadsNow(w) IN IF p = Missing \/ ~Exists(p) THEN Missing ELSE p

KeepsAll(paths) == paths                \* wrong: nested masks stay
\* No mask inside a mask.
Outermost(paths) == {p \in paths : \A q \in paths : IsPrefix(q, p) => q = p}

\* executable_path.
Executable(w) == IF Real(w) \in Executables THEN Real(w) ELSE Missing

Runnable(pr, size) ==
    /\ size["commands"] \in 1 .. Limit["commands"]
    /\ \A rule \in pr.commands \union pr.shell : Executable(rule.executable) # Missing

\* `size' is the number of entries in each list.
Acceptable(pr, size) ==
    /\ pr.keychain => pr.enabled /\ platform = "macos"
    /\ IF ~pr.enabled THEN \A l \in Policy : size[l] = 0
       ELSE /\ \A l \in Policy : size[l] <= Limit[l]
            /\ \A w \in pr.read \union pr.write \union pr.protected :
                    Real(w) \notin {Missing, <<>>}
            /\ \A w \in pr.protected : ~IsPrefix(Real(w), Project)

\* A list without links and repetitions, sorted: from here on, a set of paths.
Canonical(paths) == {Real(w) : w \in paths}

\* A rule, or a command, with the path without links.
Resolved(a) == [a EXCEPT !.executable = Real(@)]
ResolvedAll(rules) == {Resolved(rule) : rule \in rules}

Normal(pr) ==
    [pr EXCEPT !.read = Canonical(@), !.write = Canonical(@),
               !.protected = Outermost(Canonical(@)),
               !.commands = ResolvedAll(@), !.shell = ResolvedAll(@)]

Valid(pr, size) == Exists(Project) /\ Runnable(pr, size) /\ Acceptable(pr, size)

\* Profile::validate: refused, or normalised and one stage on.
Validate(pr, size, next) ==
    IF Valid(pr, size) THEN profile' = Normal(pr) /\ stage' = next
                       ELSE UNCHANGED profile /\ stage' = "refused"

\* Profile::authorize.
Authorized(pr, a) ==
    \E rule \in pr.commands :
        rule.executable = Executable(a.executable) /\ rule.args = a.args

-----------------------------------------------------------------------------
(* Client, service, guardian *)

\* The profile of a file: lists in any order, with repetitions.
Unordered(pr) ==
    [pr EXCEPT !.read = Range(@), !.write = Range(@), !.protected = Range(@),
               !.commands = Range(@)]
Lengths(pr) ==
    [l \in Policy \union {"commands"} |-> Len(pr[l])]
Sizes(pr) ==
    [l \in Policy \union {"commands"} |-> Cardinality(pr[l])]

\* The client reads the profile.
Read ==
    /\ stage = "written"
    /\ Validate(profile, Lengths(asked), "sent")
    /\ UNCHANGED <<platform, argv, command, files, history>>

\* protect_runtime: entries it adds, whether they are new or not.
ToProtect(pr) == {DataDir, RuntimeDir} \union If(pr.file, {CredentialFile})
ToRead(pr) == If(pr.git, {Exe})

Protecting(pr) ==
    IF ~pr.enabled THEN pr
    ELSE [pr EXCEPT !.protected = @ \union ToProtect(pr), !.read = @ \union ToRead(pr)]

Protected(pr) ==
    LET n == Sizes(pr) IN
    IF ~pr.enabled THEN n
    ELSE [n EXCEPT !["protected"] = @ + (IF DataDir \in pr.protected THEN 0 ELSE 1) + 1
                                      + (IF pr.file THEN 1 ELSE 0),
                   !["read"] = @ + (IF pr.git THEN 1 ELSE 0)]

\* start, resume.
Accept ==
    /\ stage = "sent"
    /\ IF profile.enabled /\ profile.file /\ ~Exists(CredentialFile)
       THEN stage' = "refused" /\ UNCHANGED profile
       ELSE Validate(Protecting(profile), Protected(profile), "accepted")
    /\ UNCHANGED <<platform, argv, command, files, history>>

\* A request to run a command comes in.
Call(a) ==
    /\ stage = "accepted"
    /\ argv' = a /\ call' = {a} /\ stage' = "called"
    /\ UNCHANGED <<platform, profile, command, files, asked>>

ShellCommand(shell, script) == [shell EXCEPT !.args = Append(@, script)]

\* A request to run a script: shell_command, then as above.
CallShell(script) ==
    /\ stage = "accepted"
    /\ \/ /\ profile.shell = {}
          /\ stage' = "unapproved" /\ UNCHANGED <<argv, call>>
       \/ \E shell \in profile.shell :
            LET a == ShellCommand(shell, script) IN
            /\ call' = {a}
            /\ IF Authorized(profile, a) THEN argv' = a /\ stage' = "called"
                                         ELSE UNCHANGED argv /\ stage' = "unapproved"
    /\ UNCHANGED <<platform, profile, command, files, asked>>

\* normalize_executable.
AsCalled(a) == a                        \* wrong: a link may lead elsewhere later
Normalized(a) == Resolved(a)

\* ... and reserve.
Reserve ==
    /\ stage = "called"
    /\ LET a == Normalized(argv) IN
       IF Real(argv.executable) # Missing /\ Authorized(profile, a)
       THEN argv' = a /\ stage' = "reserved"
       ELSE UNCHANGED argv /\ stage' = "unapproved"
    /\ UNCHANGED <<platform, profile, command, files, history>>

\* worker_main, and pty_exec_main for a terminal.
Check ==
    /\ stage = "reserved"
    /\ IF Valid(profile, Sizes(profile)) /\ Authorized(Normal(profile), argv)
       THEN profile' = Normal(profile) /\ stage' = "checked"
       ELSE UNCHANGED profile /\ stage' = "denied"
    /\ UNCHANGED <<platform, argv, command, files, history>>

\* The user changes the file system: a path is gone, a link leads elsewhere.
Changes(stages) == stage \in stages /\ removed = {} /\ moved = <<>>
Unlink(p) ==
    /\ Changes({"sent", "accepted", "called", "reserved"})
    /\ removed' = {p}
    /\ UNCHANGED <<platform, profile, stage, argv, command, moved, history>>
Relink(w, p) ==
    /\ Changes({"sent", "accepted", "called", "reserved", "checked"})
    /\ p # Resolve[w] /\ moved' = [v \in {w} |-> p]
    /\ UNCHANGED <<platform, profile, stage, argv, command, removed, history>>

-----------------------------------------------------------------------------
(* prepare_command and platform_prepare *)

\* Linux: the arguments of bwrap that mount something, in their order; in one
\* layer they are sorted, so a directory comes before what is in it.
Layer(kind, paths) == [kind |-> kind, paths |-> paths]

Grants == <<
    Layer("fresh", {Temporary}),
    Layer("ro", SystemRoots),
    Layer("ro", {Project}),
    Layer("ro", profile.read),
    Layer("rw", profile.write),
    Layer("ro", If(profile.network, NetworkFiles)),
    Layer("ro", If(profile.network /\ profile.ssh, {Agent})) >>
Masks == Layer("mask", profile.protected)

MasksFirst == <<Masks>> \o Grants       \* wrong: a grant uncovers what is protected
Mounts == Append(Grants, Masks)

\* macOS: the rules of the Seatbelt profile, in their order.
Rule(allow, ops, paths) == [allow |-> allow, ops |-> ops, paths |-> paths]

Rules == <<
    Rule(TRUE, {"read"}, SystemRoots \union {Project} \union profile.read),
    Rule(TRUE, {"read", "write"}, profile.write),
    Rule(TRUE, {"network"}, If(profile.network, {<<>>})),
    Rule(TRUE, {"read"}, If(profile.network, NetworkFiles)),
    Rule(TRUE, {"read", "write"}, If(profile.network /\ profile.ssh, {Agent})),
    Rule(TRUE, {"read", "write"}, If(profile.keychain, {Keychains})),
    Rule(FALSE, {"read", "write", "network"}, profile.protected) >>

AgentAllowed == profile.network \/ ~profile.ssh

Told ==
    LET program == Resolved(argv) IN
    IF ~profile.enabled THEN [NoCommand EXCEPT !.program = program]
    ELSE IF platform = "linux"
    THEN [mounts |-> Mounts, rules |-> <<>>, filtered |-> ~profile.network, program |-> program]
    ELSE [mounts |-> <<>>, rules |-> Rules, filtered |-> FALSE, program |-> program]

Prepare ==
    /\ stage = "checked"
    /\ IF profile.enabled /\ ~AgentAllowed
       THEN stage' = "denied" /\ UNCHANGED command
       ELSE stage' = "prepared" /\ command' = Told
    /\ UNCHANGED <<platform, profile, argv, files, history>>

-----------------------------------------------------------------------------
Init ==
    /\ platform \in {"linux", "macos"}
    /\ asked \in Requested /\ profile = Unordered(asked) /\ call = {}
    /\ stage = "written" /\ argv = NoArgv /\ command = NoCommand
    /\ removed = {} /\ moved = <<>>

Next ==
    \/ Read \/ Accept \/ Reserve \/ Check \/ Prepare
    \/ \E a \in Called : Call(a)
    \/ \E script \in Words : CallShell(script)
    \/ \E p \in {q \in Existing : \A k \in Kept : ~IsPrefix(q, k)} : Unlink(p)
    \/ \E w \in Links, p \in Executables : Relink(w, p)

Spec == Init /\ [][Next]_vars

-----------------------------------------------------------------------------
(* What the command can do *)

\* The kernel resolves a path in the last mount over it.
LinuxAccess(p) ==
    LET over == {i \in DOMAIN command.mounts : Under(p, command.mounts[i].paths)} IN
    IF over = {} THEN "none"
    ELSE CASE command.mounts[Max(over)].kind = "rw" -> "write"
           [] command.mounts[Max(over)].kind = "ro" -> "read"
           [] OTHER -> "none"

\* The last rule that matches an operation decides it.
MacAllows(op, p) ==
    LET over == {i \in DOMAIN command.rules : /\ Under(p, command.rules[i].paths)
                                              /\ op \in command.rules[i].ops} IN
    over # {} /\ command.rules[Max(over)].allow

Access(p) ==
    IF ~profile.enabled THEN "write"
    ELSE IF platform = "linux" THEN LinuxAccess(p)
    ELSE IF MacAllows("write", p) THEN "write"
    ELSE IF MacAllows("read", p) THEN "read" ELSE "none"

\* bwrap finds or makes the place of a mount: not in an empty read-only mask.
Mounted(i, p) ==
    LET layer == command.mounts[i]
        over == {j \in 1 .. i - 1 : Under(p, command.mounts[j].paths)} IN
    /\ layer.kind \in {"ro", "rw"} => Exists(p)
    /\ IF \E q \in layer.paths : q # p /\ IsPrefix(q, p)
       THEN layer.kind # "mask" /\ Exists(p)
       ELSE over # {} => LET top == command.mounts[Max(over)] IN
                         \/ p \in top.paths
                         \/ top.kind = "fresh"
                         \/ top.kind # "mask" /\ Exists(p)

-----------------------------------------------------------------------------
(* Properties *)

Led(l) == {Resolve[w] : w \in Range(asked[l])}

\* What the user asked for, and what the service protects by itself.
Hidden(p) ==
    Under(p, Led("protected") \union {DataDir, RuntimeDir} \union If(asked.file, {CredentialFile}))

\* bwrap mounts what the network needs read-only, also under a path to write.
Granted(p) ==
    IF ~asked.enabled THEN "write"
    ELSE IF Hidden(p) THEN "none"
    ELSE IF platform = "linux" /\ Under(p, If(asked.network, NetworkFiles)) THEN "read"
    ELSE IF Under(p, Led("write") \union If(asked.keychain, {Keychains})) THEN "write"
    ELSE IF Under(p, SystemRoots \union {Project} \union Led("read")
                     \union If(asked.git, {Exe}) \union If(asked.network, NetworkFiles))
    THEN "read" ELSE "none"

\* The command has the access to every file that the profile asked for, less
\* what the service protects, whatever the lists overlap or repeat, how the
\* paths were written, and whichever backend encloses it (sandbox.md: grants,
\* protected paths; the masks are mounted after grants).
EnforcesPolicy ==
    stage = "prepared" =>
        /\ \A p \in Paths \ {Agent} : Access(p) = Granted(p)
        /\ asked.enabled /\ asked.ssh => (Access(Agent) = "none" <=> Hidden(Agent))

\* The call names a program and arguments of one rule, by the paths as they were
\* when the profile was read.
AsRead(rule) == [rule EXCEPT !.executable = Resolve[@]]
Approved ==
    \E a \in call, rule \in Range(asked.commands) :
        Leads(rule.executable) = Leads(a.executable) /\ rule.args = a.args

\* An approved command of an accepted profile runs: looking at it again changes
\* no verdict, unless a file is gone, a link was moved before the call was
\* resolved, or the profile contradicts itself, and every mount finds its place.
\* Nothing else runs: the program is one that a rule led to when the profile was
\* read, with all of that rule's arguments, whatever a link leads to later
\* (README: canonical path and every argument must match one complete rule).
ApprovedCommandRuns ==
    /\ stage = "unapproved" => removed # {} \/ moved # <<>> \/ ~Approved
    /\ stage = "denied" => removed # {} \/ (asked.ssh /\ ~asked.network)
    /\ stage = "prepared" =>
        /\ \A i \in DOMAIN command.mounts : \A p \in command.mounts[i].paths : Mounted(i, p)
        /\ \E rule \in Range(asked.commands) : command.program = AsRead(rule)

\* Without network a command gets no socket: every system call is decided as
\* sandbox.md says, for every number and architecture, or no rule allows it.
NetworkFollowsPolicy ==
    stage = "prepared" /\ asked.enabled =>
        IF platform = "linux"
        THEN /\ command.filtered = ~asked.network
             /\ command.filtered =>
                    \A nr \in Numbers, arch \in Architectures :
                        Verdict(nr, arch) = Wanted(nr, arch)
        ELSE \A p \in Paths : MacAllows("network", p) <=> asked.network /\ ~Hidden(p)

\* Git is told the token for the one host of the profile, over https, in a request
\* of no more than MaxRequest bytes, and in no other case, however the request is put
\* together (git_credentials.rs, helper).
TokenOnlyForTheHost ==
    stage = "prepared" /\ asked.git =>
        \A action \in {"get", "store", "erase", "other"}, lines \in Requests,
           usable \in BOOLEAN :
            Answer(action, lines, usable) = "token" <=>
                action = "get" /\ usable /\ NamesTheHost(lines)
=============================================================================
