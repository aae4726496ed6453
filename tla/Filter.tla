------------------------------- MODULE Filter -------------------------------
(***************************************************************************)
(* The system call filter of a Linux sandbox without network               *)
(* (src/src/sandbox.rs: network_filter): a program of eleven instructions  *)
(* with relative jumps, and the machine of the kernel that runs it.        *)
(***************************************************************************)
EXTENDS Integers, Sequences

CONSTANTS
    Native,         \* the architecture the program was built for
    Architectures,
    X32,            \* the bit of the x32 system calls: 2^30
    Socket, Socketpair, IoUringSetup    \* their numbers

ASSUME FilterAssumption ==
    /\ Native \in Architectures /\ X32 \in Nat \ {0}
    /\ {Socket, Socketpair, IoUringSetup} \subseteq 0 .. X32 - 1

\* Words of a system call number: the bit and one above it.
Numbers == 0 .. 4 * X32 - 1

-----------------------------------------------------------------------------
(* The program *)

Load(field) == [op |-> "load", field |-> field]
JumpEqual(yes, no, k) == [op |-> "equal", yes |-> yes, no |-> no, k |-> k]
JumpSet(yes, no, k) == [op |-> "set", yes |-> yes, no |-> no, k |-> k]
Return(verdict) == [op |-> "return", verdict |-> verdict]

SkipNone == 0                           \* wrong: io_uring_setup is let through
ToErrno == 1

Program == <<
    Load("arch"),
    JumpEqual(1, 0, Native),
    Return("kill"),
    Load("nr"),
    JumpSet(0, 1, X32),
    Return("kill"),
    JumpEqual(3, 0, Socket),
    JumpEqual(2, 0, Socketpair),
    JumpEqual(ToErrno, 0, IoUringSetup),
    Return("allow"),
    Return("errno") >>

-----------------------------------------------------------------------------
(* The machine: one accumulator, jumps only forward *)

Taken(i, accumulator) ==
    IF i.op = "equal" THEN accumulator = i.k ELSE (accumulator \div i.k) % 2 = 1

\* The verdict on a call, or "fault" when the program is left without one.
Verdict(nr, arch) ==
    LET data == [nr |-> nr, arch |-> arch]
        run[pc \in Nat] == [accumulator \in Numbers \union Architectures |->
            IF pc \notin DOMAIN Program THEN "fault"
            ELSE LET i == Program[pc] IN
                 CASE i.op = "load" -> run[pc + 1][data[i.field]]
                   [] i.op = "return" -> i.verdict
                   [] OTHER -> run[pc + 1 + (IF Taken(i, accumulator) THEN i.yes ELSE i.no)]
                                  [accumulator]]
    IN run[1][0]

\* What it has to be.
Wanted(nr, arch) ==
    IF arch # Native \/ (nr \div X32) % 2 = 1 THEN "kill"
    ELSE IF nr \in {Socket, Socketpair, IoUringSetup} THEN "errno"
    ELSE "allow"
=============================================================================
