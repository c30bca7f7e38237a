--------------------------- MODULE ReplicaCommand ---------------------------
(***************************************************************************)
(* The command line the manager starts a replica with                      *)
(* (ReplicaManager._build_replica_cmd, embedding/replica_manager.py): its  *)
(* own arguments without the options only the manager understands, after   *)
(* the host and the port of the replica.  The replica's parser lets the    *)
(* last occurrence of an option win and stops at one it does not know.     *)
(***************************************************************************)
EXTENDS Integers, Sequences, FiniteSetsExt, SequencesExt

CONSTANTS
  Styles,       \* how a user may write an option and its value
  MaxOptions    \* bound: options on the command line

VARIABLE args    \* the options the user gave the manager, in order

\* The manager consumes the first; "port" and "host" are options of both.
ManagerOnly == {"num-replicas", "load-balancing"}
EngineOptions == {"model", "enforce-eager"}
Stripped == {"host", "port"} \cup ManagerOnly
Flags == {"enforce-eager"}

\* A flag has no value to join.
UserOptions ==
  {o \in [name : ManagerOnly \cup EngineOptions \cup {"port"}, style : Styles] :
     o.name \in Flags => o.style = "spaced"}

\* The words of an option: a flag alone, "--name value" or "--name=value".
Word(name, value) == [name |-> name, value |-> value]
Words(o) ==
  IF o.name \in Flags THEN <<Word(o.name, "")>>
  ELSE IF o.style = "joined" THEN <<Word(o.name, "user")>>
  ELSE <<Word(o.name, ""), Word("", "user")>>

ArgsList == FoldLeft(LAMBDA ws, o : ws \o Words(o), <<>>, args)

IsOption(w) == w.name # ""
\* arg in [...]: the word is exactly the option's name
IsStripped(w) == w.name \in Stripped /\ w.value = ""

Kept(words) ==
  FoldLeft(LAMBDA acc, w :
             IF IsStripped(w) THEN [acc EXCEPT !.skip = TRUE]
             ELSE IF acc.skip /\ ~IsOption(w) THEN acc
             ELSE [skip |-> FALSE, cmd |-> Append(acc.cmd, w)],
           [skip |-> FALSE, cmd |-> <<>>], words).cmd

Command ==
  <<Word("host", ""), Word("", "replica"), Word("port", ""), Word("", "replica")>>
    \o Kept(ArgsList)

\* argparse: the value of the last occurrence of an option.
Parsed(cmd, name) ==
  LET i == Max({j \in DOMAIN cmd : cmd[j].name = name})
  IN  IF cmd[i].value # "" \/ name \in Flags THEN cmd[i].value
      ELSE cmd[i + 1].value

Init == args \in SeqOf(UserOptions, MaxOptions)
Next == UNCHANGED args
Spec == Init /\ [][Next]_args

-----------------------------------------------------------------------------

Joined(names) == \E o \in ToSet(args) : o.name \in names /\ o.style = "joined"

\* replica_manager.py:30-31: "The replica manager will listen on ``--port``
\* (60050) and spawn two replicas on 60051, and 60052."  So a replica listens on
\* the port the manager gave it, whatever the user said of the manager's own.
ReplicaListensOnItsPort == Parsed(Command, "port") = "replica"

\* The options of the engine reach the replica with their values, among those
\* of the manager, and no value is left over without its option.
EngineOptionsReachTheReplica ==
  /\ \A o \in ToSet(args) : o.name \in EngineOptions =>
       \E i \in DOMAIN Command :
         Command[i].name = o.name /\
           Parsed(Command, o.name) = IF o.name \in Flags THEN "" ELSE "user"
  /\ \A i \in DOMAIN Command :
       ~IsOption(Command[i]) => i > 1 /\ IsOption(Command[i - 1])
                                  /\ Command[i - 1].value = ""

\* The replica is given no option of the manager's, which it would refuse.
ReplicaKnowsItsOptions == \A i \in DOMAIN Command : Command[i].name \notin ManagerOnly

\* What becomes of every command line: the engine's options arrive; the
\* replica is on its own port unless the user wrote "--port=N", which is not
\* among the words that are filtered; and it is given an option it refuses
\* just when the user joined one of the manager's.
OnlyJoinedOptionsPass ==
  /\ EngineOptionsReachTheReplica
  /\ ReplicaListensOnItsPort <=> ~Joined({"port"})
  /\ ReplicaKnowsItsOptions <=> ~Joined(ManagerOnly)
=============================================================================
