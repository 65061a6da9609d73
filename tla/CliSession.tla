----------------------------- MODULE CliSession -----------------------------
(***************************************************************************)
(* The debug command line of JP4Agent: clients that run cli.py, the agent  *)
(* process with its CLI server, and the gRPC calls between them.  The      *)
(* agent may be stopped, may die of a command, and may be started again,   *)
(* with nothing kept; its servers come up before its device does.          *)
(*                                                                         *)
(* A line is the sequence of the tokens between its single blanks, with "" *)
(* between two of them.  What bind() does to a target is in AftTarget and  *)
(* BrcmTarget; here an object of the map is there, null, or absent.        *)
(***************************************************************************)
EXTENDS Naturals, Sequences, Functions

CONSTANTS
    Clients,     \* the users' cli.py processes
    Lines,       \* what they may type
    Names,       \* object names
    Numbers,     \* the tokens that std::stoi and std::stoul take
    MaxLines,    \* bound: lines sent
    MaxStarts    \* bound: how often the agent is started

EntryName == "entry1"
LpmName == "ipv4_lpm"

ASSUME LinesAssumption ==
    \A l \in Lines : /\ l \in Seq(STRING) /\ l # <<>>
                     /\ (l[1] = "add-table" /\ Len(l) = 6) => l[2] \in Names
ASSUME SessionAssumption ==
    {EntryName, LpmName} \subseteq Names /\ Names \cup Numbers \subseteq STRING
ASSUME SessionBoundsAssumption == MaxLines \in Nat /\ MaxStarts \in Nat

VARIABLES
    cpc,        \* where each client is: at the prompt, in a call, or gone
    history,    \* every line sent: its answer, and the runs of the agent that
                \* have carried it out
    current,    \* the line each client is waiting for, an index of history
    call,       \* how far the RPC of each client has come
    reply,      \* what the server answers it
    up,         \* whether the agent process runs
    listening,  \* its CLI server has been started
    device,     \* Afi::init has created the device
    objects,    \* AfiDevice::_objectsMap
    installed,  \* the lines whose bind() set something up in the target
    starts      \* how often the agent was started

clientVars == <<cpc, history, current>>
callVars == <<call, reply>>
agentVars == <<up, listening, device, objects, installed, starts>>
vars == <<clientVars, callVars, agentVars>>

\* The answers a client can tell apart.
Answers ==
    [kind : {"none", "added", "invalid", "unavailable", "details"}]
      \cup [kind : {"shown"}, names : SUBSET Names, start : 1..MaxStarts]
Answer(k) == [kind |-> k]

Init ==
    /\ cpc = [c \in Clients |-> "prompt"]
    /\ history = <<>>
    /\ current = [c \in Clients |-> 0]
    /\ call = [c \in Clients |-> "none"]
    /\ reply = [c \in Clients |-> Answer("none")]
    /\ up = FALSE
    /\ listening = FALSE
    /\ device = FALSE
    /\ objects = [n \in Names |-> "absent"]
    /\ installed = {}
    /\ starts = 0

-----------------------------------------------------------------------------
(* cli.py                                                                  *)

P4Cmds == {"add-table", "add-table-entry", "show-afi-objects", "help", "quit"}
Words(l) == SelectSeq(l, LAMBDA t : t # "")   \* usr_cmd.strip().split()

\* A bug to compare with: the first word is not checked.
RunCliUnchecked(l) ==
    IF l \in {<<"">>, <<"help">>, <<"h">>, <<"?">>} THEN "local"
    ELSE IF l \in {<<"quit">>, <<"exit">>} THEN "exit"
    ELSE "send"

\* One turn of the loop of run_cli.  Empty lines, help and unknown commands are
\* dealt with at once; a line of blanks has no first word, and the IndexError
\* ends the client; any other line is sent.
RunCli(l) ==
    IF l \in {<<"">>, <<"help">>, <<"h">>, <<"?">>} THEN "local"
    ELSE IF l \in {<<"quit">>, <<"exit">>} THEN "exit"
    ELSE IF Words(l) = <<>> THEN "died"
    ELSE IF Head(Words(l)) \notin P4Cmds THEN "local"
    ELSE "send"

Added == {i \in 1..Len(history) : history[i].answer.kind = "added"}

\* The user types a line.  One that is sent is recorded, with the lines that
\* were answered "Added" before it; a local answer leaves no trace.
TypeLine(c, l) ==
    /\ cpc[c] = "prompt"
    /\ CASE RunCli(l) = "local" -> UNCHANGED <<clientVars, call>>
         [] RunCli(l) \in {"exit", "died"} ->
              cpc' = [cpc EXCEPT ![c] = "gone"] /\ UNCHANGED <<history, current, call>>
         [] RunCli(l) = "send" ->
              /\ Len(history) < MaxLines
              /\ history' = Append(history,
                              [line |-> l, answer |-> Answer("none"), applied |-> <<>>,
                               before |-> Added])
              /\ current' = [current EXCEPT ![c] = Len(history) + 1]
              /\ cpc' = [cpc EXCEPT ![c] = "call"]
              /\ call' = [call EXCEPT ![c] = "sent"]
    /\ UNCHANGED <<reply, agentVars>>

\* Ctrl-C during a call: send_cmd catches RpcErrors only.  The call goes on.
Interrupt(c) ==
    /\ cpc[c] = "call"
    /\ cpc' = [cpc EXCEPT ![c] = "gone"]
    /\ UNCHANGED <<history, current, callVars, agentVars>>

\* send_cmd prints answer a to the line, if the client is still there.
PrintAnswer(c, a) ==
    IF cpc[c] = "call"
    THEN /\ history' = [history EXCEPT ![current[c]].answer = a]
         /\ cpc' = [cpc EXCEPT ![c] = "prompt"]
    ELSE UNCHANGED <<history, cpc>>

EndCall(c) ==
    /\ call' = [call EXCEPT ![c] = "none"]
    /\ reply' = [reply EXCEPT ![c] = Answer("none")]
    /\ current' = [current EXCEPT ![c] = 0]

\* A reply is printed.  One to show-afi-objects may be larger than gRPC lets
\* a client receive: then the details of the RpcError are printed.
ReceiveReply(c) ==
    /\ call[c] = "replied"
    /\ \/ PrintAnswer(c, reply[c])
       \/ reply[c].kind = "shown" /\ PrintAnswer(c, Answer("details"))
    /\ EndCall(c)
    /\ UNCHANGED agentVars

\* A bug to compare with: the client sends the command again.
CouldntConnectRetry(c) ==
    /\ call[c] \in {"sent", "lost"}
    /\ call' = [call EXCEPT ![c] = "sent"]
    /\ UNCHANGED <<clientVars, reply, agentVars>>

\* RpcError UNAVAILABLE: the call did not reach the agent, which is down, or
\* was when the channel last tried; or the agent ended while it served the call.
CouldntConnect(c) ==
    /\ call[c] \in {"sent", "lost"}
    /\ PrintAnswer(c, Answer("unavailable"))
    /\ EndCall(c)
    /\ UNCHANGED agentVars

-----------------------------------------------------------------------------
(* The agent process.                                                      *)

\* main and JP4Agent::init up to PI::init, which starts the servers' threads.
Start ==
    /\ ~up /\ starts < MaxStarts
    /\ up' = TRUE
    /\ starts' = starts + 1
    /\ UNCHANGED <<clientVars, callVars, listening, device, objects, installed>>

\* CLIService::runGrpcServer, on a thread of its own.
RunGrpcServer ==
    /\ up /\ ~listening
    /\ listening' = TRUE
    /\ UNCHANGED <<clientVars, callVars, up, device, objects, installed, starts>>

\* Afi::init, on the main thread, after PI::init.
AfiInit ==
    /\ up /\ ~device
    /\ device' = TRUE
    /\ UNCHANGED <<clientVars, callVars, up, listening, objects, installed, starts>>

\* The clients whose calls the agent has not answered.
Served == {c \in Clients : call[c] \in {"handle", "lookUp", "return"}}

\* The process ends: the objects are gone, and the calls it has not answered fail.
Exit ==
    /\ up' = FALSE /\ listening' = FALSE /\ device' = FALSE
    /\ objects' = [n \in Names |-> "absent"]
    /\ call' = [c \in Clients |-> IF c \in Served THEN "lost" ELSE call[c]]
    /\ reply' = [c \in Clients |-> IF c \in Served THEN Answer("none") ELSE reply[c]]
    /\ UNCHANGED <<clientVars, installed, starts>>

\* SIGINT, SIGUSR1, or any other end.
Signal == up /\ Exit

-----------------------------------------------------------------------------
(* CmdHandlerSvcImpl::SendCmd.                                             *)

\* gRPC hands the call to a server thread.
AcceptCall(c) ==
    /\ call[c] = "sent"
    /\ up /\ listening
    /\ call' = [call EXCEPT ![c] = "handle"]
    /\ UNCHANGED <<clientVars, reply, agentVars>>

LineOf(c) == history[current[c]].line

\* What SendCmd makes of a line: a number that does not parse throws, and
\* nothing catches it.
Command(l) ==
    CASE l[1] = "add-table-entry" -> IF Len(l) # 4 THEN "invalid"
                                     ELSE IF l[4] \in Numbers THEN "entry" ELSE "throw"
      [] l[1] = "add-table" -> IF Len(l) # 6 THEN "invalid"
                               ELSE IF {l[4], l[6]} \subseteq Numbers THEN "tree" ELSE "throw"
      [] l[1] = "show-afi-objects" -> "show"
      [] OTHER -> "invalid"

Handling(c, cmd) == call[c] = "handle" /\ Command(LineOf(c)) = cmd

\* SendCmd is ready to return, with answer a.
Return(c, a) ==
    /\ call' = [call EXCEPT ![c] = "return"]
    /\ reply' = [reply EXCEPT ![c] = a]

InvalidCmd(c) ==
    /\ Handling(c, "invalid")
    /\ Return(c, Answer("invalid"))
    /\ UNCHANGED <<clientVars, agentVars>>

\* std::stoi or std::stoul throws; or _afiDevice, which every other command
\* uses, is still null: the process ends.
Terminate(c) ==
    /\ \/ Handling(c, "throw")
       \/ ~device /\ \E cmd \in {"tree", "entry", "show"} : Handling(c, cmd)
    /\ Exit

\* A bug to compare with: an insertion that keeps an entry the name has.
InsertObjectEmplace(n) ==
    objects' = IF objects[n] = "absent" THEN [objects EXCEPT ![n] = "object"] ELSE objects

\* insertToObjectMap.
InsertObject(n) == objects' = [objects EXCEPT ![n] = "object"]

\* The command of client c adds object n to the map.
Apply(c, n) ==
    /\ device
    /\ InsertObject(n)
    /\ history' = [history EXCEPT ![current[c]].applied = Append(@, starts)]
    /\ UNCHANGED <<cpc, current, up, listening, device, starts>>

\* bind() of a table adds it to the target.
AddTable(c) ==
    /\ Handling(c, "tree")
    /\ Apply(c, LineOf(c)[2])
    /\ installed' = installed \cup {current[c]}
    /\ Return(c, Answer("added"))

AddTableEntry(c) ==
    /\ Handling(c, "entry")
    /\ Apply(c, EntryName)
    /\ call' = [call EXCEPT ![c] = "lookUp"]
    /\ UNCHANGED <<reply, installed>>

\* A lookup of the table of the entries adds a null object when the map has none.
LookUpTable ==
    objects' = IF objects[LpmName] = "absent"
               THEN [objects EXCEPT ![LpmName] = "null"] ELSE objects

\* A bug to compare with: the test of what was found is the wrong way round.
LookUpParentReversed(c) ==
    /\ call[c] = "lookUp"
    /\ LookUpTable
    /\ installed' = IF objects[LpmName] # "object" THEN installed \cup {current[c]} ELSE installed
    /\ Return(c, Answer("added"))
    /\ UNCHANGED <<clientVars, up, listening, device, starts>>

\* bind() of the entry looks its parent up, which is always ipv4_lpm, whatever
\* table the line names.  It adds a route if it finds one and logs an error
\* otherwise; the answer is the same.
LookUpParent(c) ==
    /\ call[c] = "lookUp"
    /\ LookUpTable
    /\ installed' = IF objects[LpmName] = "object" THEN installed \cup {current[c]} ELSE installed
    /\ Return(c, Answer("added"))
    /\ UNCHANGED <<clientVars, up, listening, device, starts>>

\* A bug to compare with: the loop ends one object early.
ShownNamesButOne == {n \in Names : objects[n] # "absent" /\ n # LpmName}

\* The names getAfiObjects finds.
ShownNames == {n \in Names : objects[n] # "absent"}

\* show-afi-objects dereferences every object, also the null ones.
ShowAfiObjects(c) ==
    /\ Handling(c, "show")
    /\ device
    /\ IF \E n \in Names : objects[n] = "null"
       THEN Exit
       ELSE /\ Return(c, [kind |-> "shown", names |-> ShownNames, start |-> starts])
            /\ UNCHANGED <<clientVars, agentVars>>

\* The reply leaves the agent.
SendReply(c) ==
    /\ call[c] = "return"
    /\ call' = [call EXCEPT ![c] = "replied"]
    /\ UNCHANGED <<clientVars, reply, agentVars>>

SendCmd(c) ==
    \/ InvalidCmd(c) \/ Terminate(c)
    \/ AddTable(c) \/ AddTableEntry(c) \/ LookUpParent(c) \/ ShowAfiObjects(c)
    \/ SendReply(c)

-----------------------------------------------------------------------------
Client(c) == \/ \E l \in Lines : TypeLine(c, l)
             \/ Interrupt(c) \/ ReceiveReply(c) \/ CouldntConnect(c)

\* The bounded environment is exhausted.
Finished ==
    /\ ~up /\ starts = MaxStarts
    /\ \A c \in Clients : /\ call[c] = "none"
                          /\ cpc[c] = "gone" \/ (cpc[c] = "prompt" /\ Len(history) = MaxLines)
    /\ UNCHANGED vars

Next ==
    \/ \E c \in Clients : Client(c) \/ AcceptCall(c) \/ SendCmd(c)
    \/ Start \/ RunGrpcServer \/ AfiInit \/ Signal
    \/ Finished

(* A call that was made gets through or fails, the threads of a running     *)
(* agent go on, and a client takes the answer it is sent.  Nobody need      *)
(* start the agent.                                                         *)
Fairness ==
    \A c \in Clients :
        /\ WF_vars(AcceptCall(c) \/ CouldntConnect(c))
        /\ WF_vars(SendCmd(c))
        /\ WF_vars(ReceiveReply(c))

Spec == Init /\ [][Next]_vars
FairSpec == Spec /\ Fairness

-----------------------------------------------------------------------------
(* Properties.                                                             *)

\* Type correctness; a call in progress carries a line that begins with one of
\* the client's commands; and an agent without a device has no objects.
TypeOK ==
    /\ cpc \in [Clients -> {"prompt", "call", "gone"}]
    /\ \A i \in 1..Len(history) : /\ history[i].line \in Lines
                                  /\ history[i].answer \in Answers
                                  /\ history[i].before \subseteq 1..(i - 1)
                                  /\ history[i].applied \in Seq(1..starts)
    /\ current \in [Clients -> 0..Len(history)]
    /\ call \in [Clients -> {"none", "sent", "handle", "lookUp", "return", "replied", "lost"}]
    /\ reply \in [Clients -> Answers]
    /\ {up, listening, device} \subseteq BOOLEAN
    /\ objects \in [Names -> {"absent", "null", "object"}]
    /\ installed \subseteq 1..Len(history)
    /\ starts \in 0..MaxStarts
    /\ \A c \in Clients : call[c] # "none" =>
          /\ current[c] # 0
          /\ Words(LineOf(c)) # <<>> /\ Head(Words(LineOf(c))) \in P4Cmds
    /\ ~device => \A n \in Names : objects[n] = "absent"

\* The name of the object line l adds.
NameOf(l) == IF l[1] = "add-table" THEN l[2] ELSE EntryName
\* The objects that the lines in S have added in run r of the agent.
AddedBy(S, r) ==
    {NameOf(history[i].line) : i \in {j \in S : r \in Range(history[j].applied)}}

\* Line i can be set up in the target: it adds a table, or an entry whose table
\* was acknowledged before the line was typed, by the run that carries it out.
Ready(i) ==
    \/ history[i].line[1] = "add-table"
    \/ \E r \in Range(history[i].applied) : LpmName \in AddedBy(history[i].before, r)

\* Whatever crashes, restarts and interrupts happen, a line is carried out at
\* most once, and never when the client printed that it is invalid or showed
\* objects.  When the client printed "Added", the object is in the map by exactly
\* one insertion, and is set up in the target if it is a table or an entry whose
\* table had been acknowledged.  (For an entry without a table the client prints
\* "Added entry to table ..." too, though bind() found no table and added nothing.)
AnsweredTruthfully ==
    \A i \in 1..Len(history) :
        LET k == history[i].answer.kind
            times == Len(history[i].applied)
        IN
        /\ times <= 1
        /\ k = "added" => times = 1 /\ (Ready(i) => i \in installed)
        /\ k \in {"invalid", "shown", "details"} => times = 0

\* show-afi-objects lists every object whose command was answered before the
\* user typed it, unless the agent was started anew in between.
ShowSeesAdded ==
    \A i \in 1..Len(history) :
        LET h == history[i] IN
        h.answer.kind = "shown" => AddedBy(h.before, h.answer.start) \subseteq h.answer.names

\* Once the table that all entries belong to has been added, no command leaves
\* a null object in the map: show-afi-objects is safe until the agent ends.
NoNullAfterTable ==
    up /\ LpmName \in AddedBy(1..Len(history), starts) =>
        \A n \in Names : objects[n] # "null"

\* A client that waits for an answer gets one, or an error: an agent that ends
\* during the call or does not run never keeps it waiting.
CommandAnswered == \A c \in Clients : cpc[c] = "call" ~> cpc[c] # "call"
=============================================================================
