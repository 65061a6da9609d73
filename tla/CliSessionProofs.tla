--------------------------- MODULE CliSessionProofs ---------------------------
(***************************************************************************)
(* Proofs about CliSession, for every set of clients, every set of lines   *)
(* they may type and all bounds.                                           *)
(***************************************************************************)
EXTENDS CliSession, SequenceTheorems, TLAPS

-----------------------------------------------------------------------------
(* Types.  TypeOK needs to know which agent a call is served by.           *)

\* What history records of a line.
Record == [line : Lines, answer : Answers, applied : Seq(Nat), before : SUBSET Nat]
HistoryOK == history \in Seq(Record)

\* A call is served by the agent that runs, and an entry whose parent is still
\* to be looked up is in the map of its device.
RunInv ==
    /\ up => starts > 0
    /\ device => up
    /\ \A c \in Served : up
    /\ \A c \in Clients : call[c] = "lookUp" => device

TypeInv == TypeOK /\ HistoryOK /\ RunInv

USE LinesAssumption, SessionAssumption, SessionBoundsAssumption

\* The answers without objects.
LEMMA AnswerType ==
    \A k \in {"none", "added", "invalid", "unavailable", "details"} :
        Answer(k) \in Answers /\ Answer(k).kind = k
BY DEF Answer, Answers

\* One record of history is replaced.
LEMMA HistoryExcept ==
    ASSUME HistoryOK, NEW k \in 1..Len(history), NEW e \in Record,
           history' = [history EXCEPT ![k] = e]
    PROVE  /\ HistoryOK' /\ Len(history') = Len(history) /\ history'[k] = e
           /\ \A i \in 1..Len(history) : i # k => history'[i] = history[i]
<1>1. history \in Seq(Record) BY DEF HistoryOK
<1>2. /\ history' \in Seq(Record) /\ Len(history') = Len(history)
      /\ \A i \in 1..Len(history) : history'[i] = IF i = k THEN e ELSE history[i]
  BY <1>1, ExceptSeq
<1>3. QED BY <1>2 DEF HistoryOK

\* A record of history.
LEMMA HistoryRecord ==
    ASSUME HistoryOK, NEW i \in 1..Len(history)
    PROVE  /\ history[i] \in Record /\ history[i].line \in Lines /\ history[i].answer \in Answers
           /\ history[i].applied \in Seq(Nat) /\ history[i].before \in SUBSET Nat
<1>1. history[i] \in Record BY DEF HistoryOK
<1>2. QED BY <1>1 DEF Record

\* The line of a call is in history.
LEMMA CurrentType ==
    ASSUME TypeInv, NEW c \in Clients, call[c] # "none"
    PROVE  current[c] \in 1..Len(history) /\ Len(history) \in Nat
<1>1. Len(history) \in Nat BY DEF TypeInv, HistoryOK
<1>2. current[c] \in 0..Len(history) /\ current[c] # 0 BY DEF TypeInv, TypeOK
<1>3. QED BY <1>1, <1>2

\* Printing an answer changes that answer and nothing else of history.
LEMMA PrintHistory ==
    ASSUME TypeInv, NEW c \in Clients, call[c] # "none", NEW a \in Answers, PrintAnswer(c, a)
    PROVE  /\ HistoryOK' /\ Len(history') = Len(history)
           /\ \A i \in 1..Len(history) :
                /\ history'[i].line = history[i].line
                /\ history'[i].applied = history[i].applied
                /\ history'[i].before = history[i].before
                /\ \/ history'[i].answer = history[i].answer
                   \/ cpc[c] = "call" /\ i = current[c] /\ history'[i].answer = a
           /\ cpc' \in [Clients -> {"prompt", "call", "gone"}]
           /\ \A d \in Clients : cpc'[d] = cpc[d] \/ (d = c /\ cpc'[d] = "prompt")
           /\ cpc'[c] # "call"
<1>0. HistoryOK /\ cpc \in [Clients -> {"prompt", "call", "gone"}] BY DEF TypeInv, TypeOK
<1>1. CASE cpc[c] # "call" BY <1>0, <1>1 DEF PrintAnswer, HistoryOK
<1>2. CASE cpc[c] = "call"
  <2>1. PICK k \in 1..Len(history) : k = current[c] BY CurrentType
  <2>2. history[k] \in Record BY <1>0, HistoryRecord
  <2>3. PICK e : e = [history[k] EXCEPT !.answer = a] OBVIOUS
  <2>4. /\ e \in Record /\ e.line = history[k].line /\ e.applied = history[k].applied
        /\ e.before = history[k].before /\ e.answer = a
    BY <2>2, <2>3 DEF Record
  <2>5. history' = [history EXCEPT ![k] = e] BY <1>2, <2>1, <2>3 DEF PrintAnswer
  <2>6. /\ HistoryOK' /\ Len(history') = Len(history) /\ history'[k] = e
        /\ \A i \in 1..Len(history) : i # k => history'[i] = history[i]
    BY <1>0, <2>4, <2>5, HistoryExcept
  <2>7. cpc' = [cpc EXCEPT ![c] = "prompt"] BY <1>2 DEF PrintAnswer
  <2>8. QED BY <1>0, <1>2, <2>1, <2>4, <2>6, <2>7
<1>3. QED BY <1>1, <1>2

\* Carrying out a line adds the run of the agent to its record.
LEMMA ApplyHistory ==
    ASSUME TypeInv, NEW c \in Clients, call[c] # "none", NEW n, Apply(c, n)
    PROVE  /\ HistoryOK' /\ Len(history') = Len(history)
           /\ \A i \in 1..Len(history) :
                /\ history'[i].line = history[i].line
                /\ history'[i].answer = history[i].answer
                /\ history'[i].before = history[i].before
                /\ i # current[c] => history'[i].applied = history[i].applied
                /\ i = current[c] => history'[i].applied = Append(history[i].applied, starts)
<1>0. HistoryOK /\ starts \in Nat BY DEF TypeInv, TypeOK
<1>1. PICK k \in 1..Len(history) : k = current[c] BY CurrentType
<1>2. history[k] \in Record /\ history[k].applied \in Seq(Nat) BY <1>0, HistoryRecord
<1>3. PICK e : e = [history[k] EXCEPT !.applied = Append(history[k].applied, starts)] OBVIOUS
<1>4. Append(history[k].applied, starts) \in Seq(Nat) BY <1>0, <1>2
<1>5. /\ e \in Record /\ e.line = history[k].line /\ e.answer = history[k].answer
      /\ e.before = history[k].before /\ e.applied = Append(history[k].applied, starts)
  BY <1>2, <1>3, <1>4 DEF Record
<1>6. history' = [history EXCEPT ![k] = e] BY <1>1, <1>3 DEF Apply
<1>7. /\ HistoryOK' /\ Len(history') = Len(history) /\ history'[k] = e
      /\ \A i \in 1..Len(history) : i # k => history'[i] = history[i]
  BY <1>0, <1>5, <1>6, HistoryExcept
<1>8. QED BY <1>1, <1>5, <1>7

\* A line that is sent becomes the last of history.
LEMMA SendHistory ==
    ASSUME TypeInv, NEW c \in Clients, NEW l \in Lines, TypeLine(c, l), RunCli(l) = "send"
    PROVE  /\ HistoryOK' /\ Len(history) \in Nat /\ Len(history') = Len(history) + 1
           /\ \A i \in 1..Len(history) : history'[i] = history[i]
           /\ LET e == history'[Len(history) + 1] IN
              /\ e.line = l /\ e.answer = Answer("none") /\ e.applied = <<>>
              /\ e.before = Added
           /\ current' = [current EXCEPT ![c] = Len(history) + 1]
           /\ cpc' = [cpc EXCEPT ![c] = "call"] /\ call' = [call EXCEPT ![c] = "sent"]
           /\ cpc[c] = "prompt"
<1>0. history \in Seq(Record) /\ Len(history) \in Nat BY DEF TypeInv, HistoryOK
<1>1. PICK B : B = Added OBVIOUS
<1>2. PICK e : e = [line |-> l, answer |-> Answer("none"), applied |-> <<>>, before |-> B] OBVIOUS
<1>3. B \in SUBSET Nat BY <1>0, <1>1 DEF Added
<1>4. <<>> \in Seq(Nat) OBVIOUS
<1>5. e \in Record BY <1>2, <1>3, <1>4, AnswerType DEF Record
<1>6. /\ history' = Append(history, e)
      /\ current' = [current EXCEPT ![c] = Len(history) + 1]
      /\ cpc' = [cpc EXCEPT ![c] = "call"] /\ call' = [call EXCEPT ![c] = "sent"]
      /\ cpc[c] = "prompt"
  BY <1>1, <1>2 DEF TypeLine
<1>7. /\ history' \in Seq(Record) /\ Len(history') = Len(history) + 1
      /\ \A i \in 1..Len(history) : history'[i] = history[i]
      /\ history'[Len(history) + 1] = e
  BY <1>0, <1>5, <1>6
<1>8. e.line = l /\ e.answer = Answer("none") /\ e.applied = <<>> /\ e.before = B BY <1>2
<1>9. QED BY <1>0, <1>1, <1>6, <1>7, <1>8 DEF HistoryOK

\* The conjuncts of TypeOK about history and the lines of calls.
HistoryType ==
    \A i \in 1..Len(history) : /\ history[i].line \in Lines
                               /\ history[i].answer \in Answers
                               /\ history[i].before \subseteq 1..(i - 1)
                               /\ history[i].applied \in Seq(1..starts)
LineType ==
    /\ current \in [Clients -> 0..Len(history)]
    /\ installed \subseteq 1..Len(history)
    /\ \A c \in Clients : call[c] # "none" =>
          /\ current[c] # 0
          /\ Words(LineOf(c)) # <<>> /\ Head(Words(LineOf(c))) \in P4Cmds

\* The other ones.
AgentType ==
    /\ cpc \in [Clients -> {"prompt", "call", "gone"}]
    /\ call \in [Clients -> {"none", "sent", "handle", "lookUp", "return", "replied", "lost"}]
    /\ reply \in [Clients -> Answers]
    /\ {up, listening, device} \subseteq BOOLEAN
    /\ objects \in [Names -> {"absent", "null", "object"}]
    /\ starts \in 0..MaxStarts
    /\ ~device => \A n \in Names : objects[n] = "absent"

LEMMA TypeParts == TypeOK <=> HistoryType /\ LineType /\ AgentType
BY DEF TypeOK, HistoryType, LineType, AgentType

\* A step that adds no line keeps them typed.
LEMMA HistoryFrame ==
    ASSUME TypeInv, HistoryOK', Len(history') = Len(history),
           \A i \in 1..Len(history) : /\ history'[i].line = history[i].line
                                      /\ history'[i].before = history[i].before
                                      /\ history'[i].applied \in Seq(1..starts'),
           \A c \in Clients : current'[c] = current[c] \/ current'[c] = 0,
           DOMAIN current' = Clients, current' = [c \in Clients |-> current'[c]],
           installed' \subseteq 1..Len(history),
           \A c \in Clients : call'[c] # "none" => call[c] # "none" /\ current'[c] = current[c]
    PROVE  HistoryType' /\ LineType'
<1>0. HistoryType /\ LineType /\ Len(history) \in Nat BY TypeParts DEF TypeInv, HistoryOK
<1>1. HistoryType'
  <2> SUFFICES ASSUME NEW i \in 1..Len(history')
               PROVE  /\ history'[i].line \in Lines /\ history'[i].answer \in Answers
                      /\ history'[i].before \subseteq 1..(i - 1)
                      /\ history'[i].applied \in Seq(1..starts')
    BY DEF HistoryType
  <2>1. history'[i] \in Record BY DEF HistoryOK
  <2>2. history'[i].answer \in Answers BY <2>1 DEF Record
  <2>3. QED BY <1>0, <2>2 DEF HistoryType
<1>2. current' \in [Clients -> 0..Len(history')]
  <2>1. \A c \in Clients : current'[c] \in 0..Len(history') BY <1>0 DEF LineType
  <2>2. QED BY <2>1
<1>3. ASSUME NEW c \in Clients, call'[c] # "none"
      PROVE  /\ current'[c] # 0
             /\ Words(history'[current'[c]].line) # <<>>
             /\ Head(Words(history'[current'[c]].line)) \in P4Cmds
  <2>1. call[c] # "none" /\ current'[c] = current[c] BY <1>3
  <2>2. current[c] \in 1..Len(history) BY <2>1, CurrentType
  <2>3. history'[current'[c]].line = history[current[c]].line BY <2>1, <2>2
  <2>4. QED BY <1>0, <2>1, <2>3 DEF LineType, LineOf
<1>4. QED BY <1>1, <1>2, <1>3 DEF LineType, LineOf

\* In particular one that leaves history alone.
LEMMA SameHistory ==
    ASSUME TypeInv, UNCHANGED <<history, current>>, installed' \subseteq 1..Len(history),
           starts' \in Nat, starts <= starts',
           \A c \in Clients : call'[c] # "none" => call[c] # "none"
    PROVE  HistoryOK' /\ HistoryType' /\ LineType'
<1>0. HistoryType /\ LineType /\ Len(history) \in Nat /\ starts \in Nat
  BY TypeParts DEF TypeInv, HistoryOK, TypeOK
<1>1. HistoryOK' BY DEF TypeInv, HistoryOK
<1>2. ASSUME NEW i \in 1..Len(history) PROVE history[i].applied \in Seq(1..starts')
  <2>1. 1..starts \subseteq 1..starts' BY <1>0
  <2>2. history[i].applied \in Seq(1..starts) BY <1>0 DEF HistoryType
  <2>3. QED BY <2>1, <2>2, SeqMonotonic
<1>3. current = [c \in Clients |-> current[c]] /\ DOMAIN current = Clients BY <1>0 DEF LineType
<1>4. QED BY <1>1, <1>2, <1>3, HistoryFrame

\* The agent ends.
LEMMA ExitType == ASSUME TypeInv, Exit PROVE TypeInv'
<1>1. TypeOK /\ AgentType BY TypeParts DEF TypeInv
<1>2. /\ UNCHANGED <<history, current, cpc, starts>>
      /\ \A c \in Clients : call'[c] = IF c \in Served THEN "lost" ELSE call[c]
      /\ \A c \in Clients : reply'[c] = IF c \in Served THEN Answer("none") ELSE reply[c]
      /\ ~up' /\ ~device'
  BY DEF Exit, clientVars
<1>3. \A c \in Clients : call'[c] # "none" => call[c] # "none" BY <1>2 DEF Served
<1>4. starts \in Nat /\ installed' \subseteq 1..Len(history)
  BY <1>1 DEF AgentType, TypeOK, Exit
<1>5. HistoryOK' /\ HistoryType' /\ LineType' BY <1>2, <1>3, <1>4, SameHistory
<1>6. AgentType'
  <2>1. reply' \in [Clients -> Answers]
    BY <1>1, AnswerType DEF AgentType, Exit
  <2>2. call' \in [Clients -> {"none", "sent", "handle", "lookUp", "return", "replied", "lost"}]
    BY <1>1 DEF AgentType, Exit
  <2>3. QED BY <1>1, <2>1, <2>2 DEF AgentType, Exit, clientVars
<1>7. RunInv' BY <1>2 DEF RunInv, Served
<1>8. TypeOK' BY <1>5, <1>6 DEF TypeOK, HistoryType, LineType, AgentType
<1>9. QED BY <1>5, <1>7, <1>8 DEF TypeInv

\* A command that carries out its line.
LEMMA ApplyType ==
    ASSUME TypeInv, NEW c \in Clients, call[c] = "handle", NEW n \in Names, Apply(c, n),
           NEW label \in {"return", "lookUp"}, call' = [call EXCEPT ![c] = label],
           reply' \in [Clients -> Answers], installed' \subseteq installed \cup {current[c]}
    PROVE  TypeInv'
<1>1. TypeOK /\ HistoryType /\ LineType /\ AgentType /\ RunInv BY TypeParts DEF TypeInv
<1>2. /\ UNCHANGED <<cpc, current, up, listening, device, starts>> /\ device
      /\ objects' = [objects EXCEPT ![n] = "object"]
  BY DEF Apply, InsertObject
<1>3. up /\ starts \in Nat /\ starts > 0 BY <1>1 DEF RunInv, Served, AgentType
<1>4. /\ HistoryOK' /\ Len(history') = Len(history)
      /\ \A i \in 1..Len(history) :
            /\ history'[i].line = history[i].line /\ history'[i].before = history[i].before
            /\ i # current[c] => history'[i].applied = history[i].applied
            /\ i = current[c] => history'[i].applied = Append(history[i].applied, starts)
  BY ApplyHistory
<1>5. ASSUME NEW i \in 1..Len(history) PROVE history'[i].applied \in Seq(1..starts')
  <2>1. history[i].applied \in Seq(1..starts) BY <1>1 DEF HistoryType
  <2>2. starts \in 1..starts BY <1>3
  <2>3. Append(history[i].applied, starts) \in Seq(1..starts) BY <2>1, <2>2
  <2>4. QED BY <1>2, <1>4, <2>1, <2>3
<1>6. \A d \in Clients : call'[d] # "none" => call[d] # "none" BY <1>1 DEF AgentType
<1>7. current = [d \in Clients |-> current[d]] /\ DOMAIN current = Clients BY <1>1 DEF LineType
<1>a. installed' \subseteq 1..Len(history) BY <1>1, CurrentType DEF LineType
<1>8. HistoryType' /\ LineType' BY <1>2, <1>4, <1>5, <1>6, <1>7, <1>a, HistoryFrame
<1>9. AgentType'
  <2>1. call' \in [Clients -> {"none", "sent", "handle", "lookUp", "return", "replied", "lost"}]
    BY <1>1 DEF AgentType
  <2>2. objects' \in [Names -> {"absent", "null", "object"}] BY <1>1, <1>2 DEF AgentType
  <2>3. QED BY <1>1, <1>2, <2>1, <2>2 DEF AgentType
<1>10. RunInv' BY <1>1, <1>2, <1>3 DEF RunInv, Served, AgentType
<1>11. TypeOK' BY <1>8, <1>9 DEF TypeOK, HistoryType, LineType, AgentType
<1>12. QED BY <1>4, <1>10, <1>11 DEF TypeInv

\* The end of a call, with an answer that is printed if the client is there.
LEMMA EndType ==
    ASSUME TypeInv, NEW c \in Clients, call[c] # "none", NEW a \in Answers,
           PrintAnswer(c, a), EndCall(c), UNCHANGED agentVars
    PROVE  TypeInv'
<1>1. TypeOK /\ HistoryType /\ LineType /\ AgentType /\ RunInv BY TypeParts DEF TypeInv
<1>2. /\ call' = [call EXCEPT ![c] = "none"] /\ reply' = [reply EXCEPT ![c] = Answer("none")]
      /\ current' = [current EXCEPT ![c] = 0] /\ UNCHANGED <<up, listening, device, objects, installed, starts>>
  BY DEF EndCall, agentVars
<1>3. /\ HistoryOK' /\ Len(history') = Len(history)
      /\ \A i \in 1..Len(history) :
            /\ history'[i].line = history[i].line /\ history'[i].before = history[i].before
            /\ history'[i].applied = history[i].applied
      /\ cpc' \in [Clients -> {"prompt", "call", "gone"}]
  BY PrintHistory
<1>4. \A i \in 1..Len(history) : history'[i].applied \in Seq(1..starts')
  BY <1>1, <1>2, <1>3 DEF HistoryType
<1>5. /\ \A d \in Clients : current'[d] = current[d] \/ current'[d] = 0
      /\ current' = [d \in Clients |-> current'[d]] /\ DOMAIN current' = Clients
  BY <1>1, <1>2 DEF LineType
<1>6. \A d \in Clients : call'[d] # "none" => call[d] # "none" /\ current'[d] = current[d]
  BY <1>1, <1>2 DEF LineType, AgentType
<1>a. installed' \subseteq 1..Len(history) BY <1>1, <1>2 DEF LineType
<1>7. HistoryType' /\ LineType' BY <1>3, <1>4, <1>5, <1>6, <1>a, HistoryFrame
<1>8. AgentType'
  <2>1. call' \in [Clients -> {"none", "sent", "handle", "lookUp", "return", "replied", "lost"}]
    BY <1>1, <1>2 DEF AgentType
  <2>2. reply' \in [Clients -> Answers] BY <1>1, <1>2, AnswerType DEF AgentType
  <2>3. QED BY <1>1, <1>2, <1>3, <2>1, <2>2 DEF AgentType
<1>9. RunInv' BY <1>1, <1>2 DEF RunInv, Served, AgentType
<1>10. TypeOK' BY <1>7, <1>8 DEF TypeOK, HistoryType, LineType, AgentType
<1>11. QED BY <1>3, <1>9, <1>10 DEF TypeInv

\* A line is sent.
LEMMA SendType ==
    ASSUME TypeInv, NEW c \in Clients, NEW l \in Lines, TypeLine(c, l), RunCli(l) = "send"
    PROVE  TypeInv'
<1>1. TypeOK /\ HistoryType /\ LineType /\ AgentType /\ RunInv BY TypeParts DEF TypeInv
<1>2. UNCHANGED <<reply, up, listening, device, objects, installed, starts>> BY DEF TypeLine, agentVars
<1>3. /\ HistoryOK' /\ Len(history) \in Nat /\ Len(history') = Len(history) + 1
      /\ \A i \in 1..Len(history) : history'[i] = history[i]
      /\ current' = [current EXCEPT ![c] = Len(history) + 1]
      /\ cpc' = [cpc EXCEPT ![c] = "call"] /\ call' = [call EXCEPT ![c] = "sent"]
  BY SendHistory
<1>4. PICK e : e = history'[Len(history) + 1] OBVIOUS
<1>5. /\ e.line = l /\ e.answer = Answer("none") /\ e.applied = <<>>
      /\ e.before = Added
  BY <1>4, SendHistory
<1>6. HistoryType'
  <2>1. <<>> \in Seq(1..starts) OBVIOUS
  <2>2. e.before \subseteq 1..Len(history) BY <1>5 DEF Added
  <2>3. /\ e.line \in Lines /\ e.answer \in Answers /\ e.before \subseteq 1..(Len(history) + 1 - 1)
        /\ e.applied \in Seq(1..starts)
    BY <1>3, <1>5, <2>1, <2>2, AnswerType
  <2>4. SUFFICES ASSUME NEW i \in 1..Len(history')
                 PROVE  /\ history'[i].line \in Lines /\ history'[i].answer \in Answers
                        /\ history'[i].before \subseteq 1..(i - 1)
                        /\ history'[i].applied \in Seq(1..starts')
    BY DEF HistoryType
  <2>5. CASE i = Len(history) + 1 BY <1>2, <1>4, <2>3, <2>5
  <2>6. CASE i # Len(history) + 1
    <3>1. i \in 1..Len(history) /\ history'[i] = history[i] BY <1>3, <2>6
    <3>2. QED BY <1>1, <1>2, <3>1 DEF HistoryType
  <2>7. QED BY <2>5, <2>6
<1>7. LineType'
  <2>1. current' \in [Clients -> 0..Len(history')] /\ installed' \subseteq 1..Len(history')
    BY <1>1, <1>2, <1>3 DEF LineType
  <2>2. ASSUME NEW d \in Clients, call'[d] # "none"
        PROVE  /\ current'[d] # 0
               /\ Words(history'[current'[d]].line) # <<>>
               /\ Head(Words(history'[current'[d]].line)) \in P4Cmds
    <3>1. CASE d = c
      <4>1. current'[d] = Len(history) + 1 BY <1>1, <1>3, <3>1 DEF LineType
      <4>2. Words(l) # <<>> /\ Head(Words(l)) \in P4Cmds BY DEF RunCli
      <4>3. QED BY <1>3, <1>4, <1>5, <4>1, <4>2
    <3>2. CASE d # c
      <4>1. call[d] # "none" /\ current'[d] = current[d] BY <1>1, <1>3, <2>2, <3>2 DEF LineType, AgentType
      <4>2. current[d] \in 1..Len(history) BY <4>1, CurrentType
      <4>3. history'[current'[d]] = history[current[d]] BY <1>3, <4>1, <4>2
      <4>4. QED BY <1>1, <4>1, <4>3 DEF LineType, LineOf
    <3>3. QED BY <3>1, <3>2
  <2>3. QED BY <2>1, <2>2 DEF LineType, LineOf
<1>8. AgentType'
  <2>1. call' \in [Clients -> {"none", "sent", "handle", "lookUp", "return", "replied", "lost"}]
        /\ cpc' \in [Clients -> {"prompt", "call", "gone"}]
    BY <1>1, <1>3 DEF AgentType
  <2>2. QED BY <1>1, <1>2, <2>1 DEF AgentType
<1>9. RunInv' BY <1>1, <1>2, <1>3 DEF RunInv, Served, AgentType
<1>10. TypeOK' BY <1>6, <1>7, <1>8 DEF TypeOK, HistoryType, LineType, AgentType
<1>11. QED BY <1>3, <1>9, <1>10 DEF TypeInv

\* What a command is, by its line.
LEMMA CommandLine ==
    ASSUME NEW l \in Lines
    PROVE  /\ Command(l) = "tree" => l[1] = "add-table" /\ l[2] \in Names
           /\ Command(l) = "entry" => l[1] = "add-table-entry"
           /\ Command(l) = "show" => l[1] = "show-afi-objects"
<1>1. l \in Seq(STRING) /\ ((l[1] = "add-table" /\ Len(l) = 6) => l[2] \in Names) OBVIOUS
<1>2. CASE l[1] = "add-table-entry" BY <1>2 DEF Command
<1>3. CASE l[1] = "add-table" BY <1>1, <1>3 DEF Command
<1>4. CASE l[1] = "show-afi-objects" BY <1>4 DEF Command
<1>5. CASE l[1] \notin {"add-table-entry", "add-table", "show-afi-objects"} BY <1>5 DEF Command
<1>6. QED BY <1>2, <1>3, <1>4, <1>5

LEMMA HandlingLine ==
    ASSUME TypeInv, NEW c \in Clients, NEW cmd, Handling(c, cmd)
    PROVE  call[c] = "handle" /\ LineOf(c) \in Lines /\ Command(LineOf(c)) = cmd
<1>1. call[c] = "handle" /\ Command(LineOf(c)) = cmd BY DEF Handling
<1>2. current[c] \in 1..Len(history) BY <1>1, CurrentType
<1>3. history[current[c]].line \in Lines BY <1>2, HistoryRecord DEF TypeInv
<1>4. QED BY <1>1, <1>3 DEF LineOf

\* A step of a call that leaves lines and objects alone.
LEMMA CallType ==
    ASSUME TypeInv, NEW c \in Clients, NEW label \in {"handle", "return", "replied"},
           call[c] # "none", up \/ label = "replied", call' = [call EXCEPT ![c] = label],
           reply' \in [Clients -> Answers],
           UNCHANGED <<clientVars, agentVars>>
    PROVE  TypeInv'
<1>1. TypeOK /\ AgentType /\ RunInv BY TypeParts DEF TypeInv
<1>2. UNCHANGED <<cpc, history, current, up, listening, device, objects, installed, starts>>
  BY DEF clientVars, agentVars
<1>3. /\ starts \in Nat /\ installed' \subseteq 1..Len(history)
      /\ \A d \in Clients : call'[d] # "none" => call[d] # "none"
  BY <1>1, <1>2 DEF AgentType, TypeOK
<1>4. HistoryOK' /\ HistoryType' /\ LineType' BY <1>2, <1>3, SameHistory
<1>5. call' \in [Clients -> {"none", "sent", "handle", "lookUp", "return", "replied", "lost"}]
  BY <1>1 DEF AgentType
<1>6. AgentType' BY <1>1, <1>2, <1>5 DEF AgentType
<1>7. RunInv' BY <1>1, <1>2 DEF RunInv, Served, AgentType
<1>8. TypeOK' BY <1>4, <1>6 DEF TypeOK, HistoryType, LineType, AgentType
<1>9. QED BY <1>4, <1>7, <1>8 DEF TypeInv

\* TypeInv is preserved by every step of Next.
LEMMA TypeStep == TypeInv /\ [Next]_vars => TypeInv'
<1> SUFFICES ASSUME TypeInv, [Next]_vars PROVE TypeInv'
  OBVIOUS
<1>0. /\ TypeOK /\ AgentType /\ RunInv /\ starts \in Nat
      /\ installed \subseteq 1..Len(history)
  BY TypeParts DEF TypeInv, TypeOK
<1> USE DEF clientVars, callVars, agentVars
<1>1. ASSUME UNCHANGED <<history, current, call, reply, installed>>, AgentType', RunInv',
             starts <= starts'
      PROVE  TypeInv'
  <2>1. starts' \in Nat /\ installed' \subseteq 1..Len(history) BY <1>0, <1>1 DEF AgentType
  <2>2. HistoryOK' /\ HistoryType' /\ LineType' BY <1>1, <2>1, SameHistory
  <2>3. TypeOK' BY <1>1, <2>2 DEF TypeOK, HistoryType, LineType, AgentType
  <2>4. QED BY <1>1, <2>2, <2>3 DEF TypeInv
<1>2. ASSUME NEW c \in Clients, NEW l \in Lines, TypeLine(c, l) PROVE TypeInv'
  <2>1. CASE RunCli(l) = "send" BY <1>2, <2>1, SendType
  <2>2. CASE RunCli(l) # "send"
    <3>1. RunCli(l) \in {"local", "exit", "died"} BY <2>2 DEF RunCli
    <3>2. /\ UNCHANGED <<history, current, call, reply, up, listening, device, objects, installed,
                          starts>>
          /\ cpc' = cpc \/ cpc' = [cpc EXCEPT ![c] = "gone"]
      BY <1>2, <2>2, <3>1 DEF TypeLine
    <3>3. AgentType' BY <1>0, <3>2 DEF AgentType
    <3>4. QED BY <1>0, <1>1, <3>2, <3>3 DEF RunInv, Served
  <2>3. QED BY <2>1, <2>2
<1>3. ASSUME NEW c \in Clients, Interrupt(c) PROVE TypeInv'
  <2>1. AgentType' BY <1>0, <1>3 DEF Interrupt, AgentType
  <2>2. QED BY <1>0, <1>1, <1>3, <2>1 DEF Interrupt, RunInv, Served
<1>4. ASSUME NEW c \in Clients, ReceiveReply(c) PROVE TypeInv'
  <2>1. PICK a : PrintAnswer(c, a) /\ a \in {reply[c], Answer("details")}
    BY <1>4 DEF ReceiveReply
  <2>2. a \in Answers BY <1>0, <2>1, AnswerType DEF AgentType
  <2>3. QED BY <1>4, <2>1, <2>2, EndType DEF ReceiveReply
<1>5. ASSUME NEW c \in Clients, CouldntConnect(c) PROVE TypeInv'
  <2>1. /\ call[c] # "none" /\ PrintAnswer(c, Answer("unavailable")) /\ EndCall(c)
        /\ UNCHANGED agentVars /\ Answer("unavailable") \in Answers
    BY <1>5, AnswerType DEF CouldntConnect
  <2>2. QED BY <2>1, EndType
<1>6. CASE Start
  <2>1. up' = TRUE /\ starts' = starts + 1 /\ starts < MaxStarts
        /\ UNCHANGED <<cpc, history, current, call, reply, listening, device, objects, installed>>
    BY <1>6 DEF Start
  <2>2. starts' \in 0..MaxStarts /\ starts' > 0 /\ starts <= starts' BY <1>0, <2>1
  <2>3. AgentType' BY <1>0, <2>1, <2>2 DEF AgentType
  <2>4. QED BY <1>0, <1>1, <2>1, <2>2, <2>3 DEF RunInv, Served
<1>7. CASE RunGrpcServer \/ AfiInit
  <2>1. /\ UNCHANGED <<cpc, history, current, call, reply, up, objects, installed, starts>> /\ up
        /\ (UNCHANGED device /\ listening' = TRUE) \/ (UNCHANGED listening /\ device' = TRUE)
    BY <1>7 DEF RunGrpcServer, AfiInit
  <2>2. {up', listening', device'} \subseteq BOOLEAN BY <1>0, <2>1, Zenon DEF AgentType
  <2>3. ~device' => ~device BY <2>1
  <2>4. AgentType' BY <1>0, <2>1, <2>2, <2>3 DEF AgentType
  <2>5. QED BY <1>0, <1>1, <2>1, <2>4 DEF RunInv, Served
<1>8. CASE Signal BY <1>8, ExitType DEF Signal
<1>9. ASSUME NEW c \in Clients, AcceptCall(c) PROVE TypeInv'
  <2>1. /\ call[c] # "none" /\ up /\ call' = [call EXCEPT ![c] = "handle"]
        /\ UNCHANGED <<clientVars, agentVars>> /\ reply' = reply
    BY <1>9 DEF AcceptCall
  <2>2. reply' \in [Clients -> Answers] BY <1>0, <2>1 DEF AgentType
  <2>3. QED BY <2>1, <2>2, CallType
<1>10. ASSUME NEW c \in Clients, InvalidCmd(c) PROVE TypeInv'
  <2>1. /\ call[c] = "handle" /\ call' = [call EXCEPT ![c] = "return"]
        /\ UNCHANGED <<clientVars, agentVars>> /\ reply' = [reply EXCEPT ![c] = Answer("invalid")]
    BY <1>10 DEF InvalidCmd, Handling, Return
  <2>2. reply' \in [Clients -> Answers] BY <1>0, <2>1, AnswerType DEF AgentType
  <2>3. up BY <1>0, <2>1 DEF RunInv, Served
  <2>4. QED BY <2>1, <2>2, <2>3, CallType
<1>11. ASSUME NEW c \in Clients, Terminate(c) PROVE TypeInv'
  BY <1>11, ExitType DEF Terminate
<1>12. ASSUME NEW c \in Clients, AddTable(c) PROVE TypeInv'
  <2>1. call[c] = "handle" /\ LineOf(c)[2] \in Names
    BY <1>12, HandlingLine, CommandLine DEF AddTable
  <2>2. /\ Apply(c, LineOf(c)[2]) /\ call' = [call EXCEPT ![c] = "return"]
        /\ reply' = [reply EXCEPT ![c] = Answer("added")]
        /\ installed' \subseteq installed \cup {current[c]}
    BY <1>12 DEF AddTable, Return
  <2>3. reply' \in [Clients -> Answers] BY <1>0, <2>2, AnswerType DEF AgentType
  <2>4. QED BY <2>1, <2>2, <2>3, ApplyType
<1>13. ASSUME NEW c \in Clients, AddTableEntry(c) PROVE TypeInv'
  <2>1. /\ call[c] = "handle" /\ Apply(c, EntryName) /\ call' = [call EXCEPT ![c] = "lookUp"]
        /\ reply' = reply /\ installed' \subseteq installed \cup {current[c]}
    BY <1>13 DEF AddTableEntry, Handling
  <2>2. reply' \in [Clients -> Answers] /\ EntryName \in Names BY <1>0, <2>1 DEF AgentType
  <2>3. QED BY <2>1, <2>2, ApplyType
<1>14. ASSUME NEW c \in Clients, LookUpParent(c) PROVE TypeInv'
  <2>1. /\ call[c] = "lookUp" /\ call' = [call EXCEPT ![c] = "return"]
        /\ reply' = [reply EXCEPT ![c] = Answer("added")]
        /\ objects' = objects \/ objects' = [objects EXCEPT ![LpmName] = "null"]
        /\ installed' \subseteq installed \cup {current[c]}
        /\ UNCHANGED <<cpc, history, current, up, listening, device, starts>>
    BY <1>14 DEF LookUpParent, LookUpTable, Return
  <2>a. installed' \subseteq 1..Len(history) BY <1>0, <2>1, CurrentType
  <2>2. device /\ up BY <1>0, <2>1 DEF RunInv
  <2>3. reply' \in [Clients -> Answers] BY <1>0, <2>1, AnswerType DEF AgentType
  <2>4. call' \in [Clients -> {"none", "sent", "handle", "lookUp", "return", "replied", "lost"}]
        /\ objects' \in [Names -> {"absent", "null", "object"}]
    BY <1>0, <2>1 DEF AgentType
  <2>5. \A d \in Clients : call'[d] # "none" => call[d] # "none" BY <1>0, <2>1 DEF AgentType
  <2>6. HistoryOK' /\ HistoryType' /\ LineType' BY <1>0, <2>1, <2>a, <2>5, SameHistory
  <2>7. AgentType' BY <1>0, <2>1, <2>2, <2>3, <2>4 DEF AgentType
  <2>8. RunInv' BY <1>0, <2>1, <2>2 DEF RunInv, Served, AgentType
  <2>9. TypeOK' BY <2>6, <2>7 DEF TypeOK, HistoryType, LineType, AgentType
  <2>10. QED BY <2>6, <2>8, <2>9 DEF TypeInv
<1>15. ASSUME NEW c \in Clients, ShowAfiObjects(c) PROVE TypeInv'
  <2>1. CASE \E n \in Names : objects[n] = "null" BY <1>15, <2>1, ExitType DEF ShowAfiObjects
  <2>2. CASE ~(\E n \in Names : objects[n] = "null")
    <3>1. PICK a : a = [kind |-> "shown", names |-> ShownNames, start |-> starts] OBVIOUS
    <3>2. /\ call[c] = "handle" /\ call' = [call EXCEPT ![c] = "return"]
          /\ reply' = [reply EXCEPT ![c] = a] /\ UNCHANGED <<clientVars, agentVars>>
      BY <1>15, <2>2, <3>1 DEF ShowAfiObjects, Return, Handling
    <3>3. up BY <1>0, <3>2 DEF RunInv, Served
    <3>4. starts \in 1..MaxStarts BY <1>0, <3>3 DEF RunInv, AgentType
    <3>5. ShownNames \in SUBSET Names BY DEF ShownNames
    <3>6. a \in Answers BY <3>1, <3>4, <3>5 DEF Answers
    <3>7. reply' \in [Clients -> Answers] BY <1>0, <3>2, <3>6 DEF AgentType
    <3>8. QED BY <3>2, <3>3, <3>7, CallType
  <2>3. QED BY <2>1, <2>2
<1>16. ASSUME NEW c \in Clients, SendReply(c) PROVE TypeInv'
  <2>1. /\ call[c] # "none" /\ call' = [call EXCEPT ![c] = "replied"]
        /\ UNCHANGED <<clientVars, agentVars>> /\ reply' = reply
    BY <1>16 DEF SendReply
  <2>2. reply' \in [Clients -> Answers] BY <1>0, <2>1 DEF AgentType
  <2>3. QED BY <2>1, <2>2, CallType
<1>17. CASE Finished \/ UNCHANGED vars
  <2>1. UNCHANGED <<cpc, history, current, call, reply, up, listening, device, objects, installed,
                    starts>>
    BY <1>17 DEF Finished, vars
  <2>2. AgentType' BY <1>0, <2>1 DEF AgentType
  <2>3. QED BY <1>0, <1>1, <2>1, <2>2 DEF RunInv, Served
<1>18. QED
  BY <1>2, <1>3, <1>4, <1>5, <1>6, <1>7, <1>8, <1>9, <1>10, <1>11, <1>12, <1>13, <1>14, <1>15,
     <1>16, <1>17
  DEF Next, Client, SendCmd

\* TypeInv holds of every behaviour.
LEMMA TypeInvariant == Spec => []TypeInv
<1>1. Init => TypeInv
  <2> SUFFICES ASSUME Init PROVE TypeInv OBVIOUS
  <2>1. history = <<>> BY DEF Init
  <2>2. Len(history) = 0 /\ HistoryOK BY <2>1 DEF HistoryOK
  <2>3. RunInv BY DEF Init, RunInv, Served
  <2>4. AgentType
    <3>1. up = FALSE /\ listening = FALSE /\ device = FALSE BY DEF Init
    <3>2. {up, listening, device} \subseteq BOOLEAN BY <3>1, Zenon
    <3>3. starts = 0 /\ starts \in 0..MaxStarts BY DEF Init
    <3>4. reply \in [Clients -> Answers] BY AnswerType DEF Init
    <3>5. objects \in [Names -> {"absent", "null", "object"}] /\ \A n \in Names : objects[n] = "absent"
      BY DEF Init
    <3>6. cpc \in [Clients -> {"prompt", "call", "gone"}]
          /\ call \in [Clients -> {"none", "sent", "handle", "lookUp", "return", "replied", "lost"}]
      BY DEF Init
    <3>7. QED BY <3>2, <3>3, <3>4, <3>5, <3>6 DEF AgentType
  <2>5. HistoryType BY <2>2 DEF HistoryType
  <2>6. LineType BY <2>2 DEF Init, LineType
  <2>7. QED BY <2>2, <2>3, <2>4, <2>5, <2>6, TypeParts DEF TypeInv
<1>2. QED BY <1>1, TypeStep, PTL DEF Spec

\* Every behaviour of clients and agent is well typed: a call in progress
\* carries a line with a command, and an agent without a device has no objects.
THEOREM TypeCorrect == Spec => []TypeOK
<1>1. TypeInv => TypeOK BY DEF TypeInv
<1>2. QED BY <1>1, TypeInvariant, PTL

-----------------------------------------------------------------------------
(* Lines and their calls.                                                  *)

\* A client at its prompt has no call, and no two calls are for one line.
CallInv ==
    /\ \A c \in Clients : cpc[c] = "prompt" => call[c] = "none"
    /\ \A c, d \in Clients : c # d /\ call[c] # "none" /\ call[d] # "none" =>
          current[c] # current[d]

\* Answer kind k is true of a line that was carried out n times.
Truthful(k, n) ==
    /\ n <= 1
    /\ k = "added" => n = 1
    /\ k \in {"invalid", "shown", "details"} => n = 0

\* How often the line of a call has been carried out when the call is at stage
\* st, with a reply of kind k.
StageOK(st, k, n) ==
    /\ n <= 1
    /\ st \in {"sent", "handle"} => n = 0
    /\ st = "lookUp" => n = 1
    /\ st \in {"return", "replied"} => Truthful(k, n)

Times(i) == Len(history[i].applied)

\* The line of a call has no answer yet, and was carried out as its stage says.
StageInv ==
    \A c \in Clients : call[c] # "none" =>
        /\ history[current[c]].answer.kind = "none"
        /\ StageOK(call[c], reply[c].kind, Times(current[c]))

TruthInv == \A i \in 1..Len(history) : Truthful(history[i].answer.kind, Times(i))

AnswerInv == CallInv /\ StageInv /\ TruthInv

\* A step that leaves lines, calls and replies alone.
LEMMA AnswerFrame ==
    ASSUME AnswerInv, UNCHANGED <<history, current, call, reply>>,
           \A c \in Clients : cpc'[c] = "prompt" => cpc[c] = "prompt"
    PROVE  AnswerInv'
BY DEF AnswerInv, CallInv, StageInv, TruthInv, Times

\* One call goes on to another stage.
LEMMA AnswerCall ==
    ASSUME TypeInv, AnswerInv, NEW c \in Clients, call[c] # "none", NEW label,
           call' = [call EXCEPT ![c] = label], NEW a, reply' = [reply EXCEPT ![c] = a],
           UNCHANGED <<cpc, history, current>>,
           StageOK(label, a.kind, Times(current[c]))
    PROVE  AnswerInv'
<1>1. CallInv /\ StageInv /\ TruthInv BY DEF AnswerInv
<1>2. call'[c] = label /\ reply'[c] = a
      /\ \A d \in Clients : d # c => call'[d] = call[d] /\ reply'[d] = reply[d]
  BY DEF TypeInv, TypeOK
<1>3. CallInv'
  <2>1. \A d \in Clients : call'[d] # "none" => call[d] # "none" BY <1>2
  <2>2. cpc[c] # "prompt" BY <1>1 DEF CallInv
  <2>3. QED BY <1>1, <1>2, <2>1, <2>2 DEF CallInv
<1>4. StageInv'
  <2> SUFFICES ASSUME NEW d \in Clients, call'[d] # "none"
               PROVE  /\ history[current[d]].answer.kind = "none"
                      /\ StageOK(call'[d], reply'[d].kind, Times(current[d]))
    BY DEF StageInv, Times
  <2>1. CASE d = c BY <1>1, <1>2, <2>1 DEF StageInv
  <2>2. CASE d # c BY <1>1, <1>2, <2>2 DEF StageInv
  <2>3. QED BY <2>1, <2>2
<1>5. TruthInv' BY <1>1 DEF TruthInv, Times
<1>6. QED BY <1>3, <1>4, <1>5 DEF AnswerInv

\* The agent ends: the calls it served are lost, whatever they have done.
LEMMA AnswerExit ==
    ASSUME TypeInv, AnswerInv, Exit
    PROVE  AnswerInv'
<1>1. CallInv /\ StageInv /\ TruthInv BY DEF AnswerInv
<1>2. /\ UNCHANGED <<cpc, history, current>>
      /\ \A c \in Clients : call'[c] = IF c \in Served THEN "lost" ELSE call[c]
      /\ \A c \in Clients : reply'[c] = IF c \in Served THEN Answer("none") ELSE reply[c]
  BY DEF Exit, clientVars
<1>3. \A c \in Clients : call'[c] # "none" <=> call[c] # "none" BY <1>2 DEF Served
<1>4. CallInv' BY <1>1, <1>2, <1>3 DEF CallInv
<1>5. StageInv'
  <2> SUFFICES ASSUME NEW d \in Clients, call'[d] # "none"
               PROVE  /\ history[current[d]].answer.kind = "none"
                      /\ StageOK(call'[d], reply'[d].kind, Times(current[d]))
    BY <1>2 DEF StageInv, Times
  <2>1. call[d] # "none" BY <1>3
  <2>2. /\ history[current[d]].answer.kind = "none"
        /\ StageOK(call[d], reply[d].kind, Times(current[d]))
    BY <1>1, <2>1 DEF StageInv
  <2>3. CASE d \in Served
    <3>1. call'[d] = "lost" BY <1>2, <2>3
    <3>2. QED BY <2>2, <3>1 DEF StageOK
  <2>4. CASE d \notin Served BY <1>2, <2>2, <2>4
  <2>5. QED BY <2>3, <2>4
<1>6. TruthInv' BY <1>1, <1>2 DEF TruthInv, Times
<1>7. QED BY <1>4, <1>5, <1>6 DEF AnswerInv

\* A command carries out its line.
LEMMA AnswerApply ==
    ASSUME TypeInv, AnswerInv, NEW c \in Clients, call[c] = "handle", NEW n, Apply(c, n),
           NEW label, call' = [call EXCEPT ![c] = label], NEW a, reply' = [reply EXCEPT ![c] = a],
           StageOK(label, a.kind, 1)
    PROVE  AnswerInv'
<1>1. CallInv /\ StageInv /\ TruthInv BY DEF AnswerInv
<1>2. call'[c] = label /\ reply'[c] = a
      /\ \A d \in Clients : d # c => call'[d] = call[d] /\ reply'[d] = reply[d]
  BY DEF TypeInv, TypeOK
<1>3. UNCHANGED <<cpc, current>> BY DEF Apply
<1>4. /\ Len(history') = Len(history)
      /\ \A i \in 1..Len(history) :
            /\ history'[i].answer = history[i].answer
            /\ i # current[c] => history'[i].applied = history[i].applied
            /\ i = current[c] => history'[i].applied = Append(history[i].applied, starts)
  BY ApplyHistory
<1>5. PICK k \in 1..Len(history) : k = current[c] BY CurrentType
<1>6. history[k].answer.kind = "none" /\ Times(k) = 0 BY <1>1, <1>5 DEF StageInv, StageOK
<1>7. history[k].applied \in Seq(Nat) BY <1>5, HistoryRecord DEF TypeInv
<1>8. Times(k)' = 1
  <2>1. history'[k].applied = Append(history[k].applied, starts) BY <1>4, <1>5
  <2>2. QED BY <1>6, <1>7, <2>1 DEF Times
<1>9. \A i \in 1..Len(history) : i # k => Times(i)' = Times(i) BY <1>4, <1>5 DEF Times
<1>10. CallInv'
  <2>1. \A d \in Clients : call'[d] # "none" => call[d] # "none" BY <1>2
  <2>2. cpc[c] # "prompt" BY <1>1 DEF CallInv
  <2>3. QED BY <1>1, <1>2, <1>3, <2>1, <2>2 DEF CallInv
<1>11. StageInv'
  <2> SUFFICES ASSUME NEW d \in Clients, call'[d] # "none"
               PROVE  /\ history'[current[d]].answer.kind = "none"
                      /\ StageOK(call'[d], reply'[d].kind, Len(history'[current[d]].applied))
    BY <1>3 DEF StageInv, Times
  <2>1. CASE d = c BY <1>2, <1>4, <1>5, <1>6, <1>8, <2>1 DEF Times
  <2>2. CASE d # c
    <3>1. call[d] # "none" BY <1>2, <2>2
    <3>2. current[d] \in 1..Len(history) /\ current[d] # k
      BY <1>1, <1>5, <2>2, <3>1, CurrentType DEF CallInv
    <3>3. Len(history'[current[d]].applied) = Times(current[d]) BY <1>4, <1>5, <3>2 DEF Times
    <3>4. QED BY <1>1, <1>2, <1>4, <2>2, <3>1, <3>2, <3>3 DEF StageInv
  <2>3. QED BY <2>1, <2>2
<1>12. TruthInv'
  <2> SUFFICES ASSUME NEW i \in 1..Len(history)
               PROVE  Truthful(history'[i].answer.kind, Times(i)')
    BY <1>4 DEF TruthInv
  <2>1. CASE i = k BY <1>4, <1>6, <1>8, <2>1 DEF Truthful
  <2>2. CASE i # k BY <1>1, <1>4, <1>9, <2>2 DEF TruthInv
  <2>3. QED BY <2>1, <2>2
<1>13. QED BY <1>10, <1>11, <1>12 DEF AnswerInv

\* A call ends with an answer that is true of its line.
LEMMA AnswerEnd ==
    ASSUME TypeInv, AnswerInv, NEW c \in Clients, call[c] # "none", NEW a \in Answers,
           PrintAnswer(c, a), EndCall(c), Truthful(a.kind, Times(current[c]))
    PROVE  AnswerInv'
<1>1. CallInv /\ StageInv /\ TruthInv BY DEF AnswerInv
<1>2. /\ call'[c] = "none"
      /\ \A d \in Clients : d # c =>
            call'[d] = call[d] /\ reply'[d] = reply[d] /\ current'[d] = current[d]
  BY DEF TypeInv, TypeOK, EndCall
<1>3. /\ Len(history') = Len(history)
      /\ \A i \in 1..Len(history) :
            /\ history'[i].applied = history[i].applied
            /\ \/ history'[i].answer = history[i].answer
               \/ i = current[c] /\ history'[i].answer = a
      /\ \A d \in Clients : cpc'[d] = cpc[d] \/ (d = c /\ cpc'[d] = "prompt")
  BY PrintHistory
<1>4. \A i \in 1..Len(history) : Times(i)' = Times(i) BY <1>3 DEF Times
<1>5. CallInv' BY <1>1, <1>2, <1>3 DEF CallInv
<1>6. StageInv'
  <2> SUFFICES ASSUME NEW d \in Clients, call'[d] # "none"
               PROVE  /\ history'[current'[d]].answer.kind = "none"
                      /\ StageOK(call'[d], reply'[d].kind, Times(current[d])')
    BY DEF StageInv, Times
  <2>1. d # c /\ call[d] # "none" /\ current'[d] = current[d] BY <1>2
  <2>2. current[d] \in 1..Len(history) /\ current[d] # current[c]
    BY <1>1, <2>1, CurrentType DEF CallInv
  <2>3. history'[current[d]].answer = history[current[d]].answer BY <1>3, <2>2
  <2>4. Len(history'[current[d]].applied) = Times(current[d]) BY <1>3, <2>2 DEF Times
  <2>5. /\ history[current[d]].answer.kind = "none"
        /\ StageOK(call[d], reply[d].kind, Times(current[d]))
    BY <1>1, <2>1 DEF StageInv
  <2>6. Times(current[d])' = Times(current[d]) BY <2>1, <2>4 DEF Times
  <2>7. QED BY <1>2, <2>1, <2>3, <2>5, <2>6
<1>7. TruthInv'
  <2> SUFFICES ASSUME NEW i \in 1..Len(history)
               PROVE  Truthful(history'[i].answer.kind, Times(i)')
    BY <1>3 DEF TruthInv
  <2>1. QED BY <1>1, <1>3, <1>4 DEF TruthInv
<1>8. QED BY <1>5, <1>6, <1>7 DEF AnswerInv

\* A line is sent.
LEMMA AnswerSend ==
    ASSUME TypeInv, AnswerInv, NEW c \in Clients, NEW l \in Lines, TypeLine(c, l),
           RunCli(l) = "send"
    PROVE  AnswerInv'
<1>1. CallInv /\ StageInv /\ TruthInv BY DEF AnswerInv
<1>2. /\ Len(history) \in Nat /\ Len(history') = Len(history) + 1
      /\ \A i \in 1..Len(history) : history'[i] = history[i]
      /\ current' = [current EXCEPT ![c] = Len(history) + 1]
      /\ cpc' = [cpc EXCEPT ![c] = "call"] /\ call' = [call EXCEPT ![c] = "sent"]
      /\ cpc[c] = "prompt"
  BY SendHistory
<1>3. PICK e : e = history'[Len(history) + 1] OBVIOUS
<1>4. e.answer.kind = "none" /\ e.applied = <<>> BY <1>3, SendHistory, AnswerType
<1>5. /\ call'[c] = "sent" /\ current'[c] = Len(history) + 1 /\ cpc'[c] = "call" /\ reply' = reply
      /\ \A d \in Clients : d # c =>
            call'[d] = call[d] /\ current'[d] = current[d] /\ cpc'[d] = cpc[d]
  BY <1>2 DEF TypeInv, TypeOK, TypeLine
<1>6. \A d \in Clients : d # c /\ call'[d] # "none" => current'[d] \in 1..Len(history)
  BY <1>5, CurrentType
<1>7. CallInv'
  <2>1. \A d \in Clients : cpc'[d] = "prompt" => call'[d] = "none" BY <1>1, <1>5 DEF CallInv
  <2>2. ASSUME NEW d \in Clients, NEW f \in Clients, d # f, call'[d] # "none", call'[f] # "none"
        PROVE  current'[d] # current'[f]
    <3>1. CASE d = c \/ f = c BY <1>2, <1>5, <1>6, <2>2, <3>1
    <3>2. CASE d # c /\ f # c BY <1>1, <1>5, <2>2, <3>2 DEF CallInv
    <3>3. QED BY <3>1, <3>2
  <2>3. QED BY <2>1, <2>2 DEF CallInv
<1>8. Len(<<>>) = 0 OBVIOUS
<1>9. StageInv'
  <2> SUFFICES ASSUME NEW d \in Clients, call'[d] # "none"
               PROVE  /\ history'[current'[d]].answer.kind = "none"
                      /\ StageOK(call'[d], reply'[d].kind, Len(history'[current'[d]].applied))
    BY DEF StageInv, Times
  <2>1. CASE d = c BY <1>3, <1>4, <1>5, <1>8, <2>1 DEF StageOK
  <2>2. CASE d # c
    <3>1. history'[current'[d]] = history[current[d]] BY <1>2, <1>5, <1>6, <2>2
    <3>2. QED BY <1>1, <1>5, <2>2, <3>1 DEF StageInv, Times
  <2>3. QED BY <2>1, <2>2
<1>10. TruthInv'
  <2> SUFFICES ASSUME NEW i \in 1..Len(history')
               PROVE  Truthful(history'[i].answer.kind, Len(history'[i].applied))
    BY DEF TruthInv, Times
  <2>1. CASE i = Len(history) + 1 BY <1>3, <1>4, <1>8, <2>1 DEF Truthful
  <2>2. CASE i # Len(history) + 1
    <3>1. i \in 1..Len(history) BY <1>2, <2>2
    <3>2. QED BY <1>1, <1>2, <3>1 DEF TruthInv, Times
  <2>3. QED BY <2>1, <2>2
<1>11. QED BY <1>7, <1>9, <1>10 DEF AnswerInv

\* The inductive step for answers.
LEMMA AnswerStep ==
    ASSUME TypeInv, AnswerInv, [Next]_vars
    PROVE  AnswerInv'
<1>0. CallInv /\ StageInv /\ TypeOK BY DEF AnswerInv, TypeInv
<1>a. reply \in [Clients -> Answers] BY <1>0 DEF TypeOK
<1>b. \A c \in Clients : reply = [reply EXCEPT ![c] = reply[c]] BY <1>a
<1> USE DEF clientVars, callVars, agentVars
<1>1. ASSUME NEW c \in Clients, NEW l \in Lines, TypeLine(c, l) PROVE AnswerInv'
  <2>1. CASE RunCli(l) = "send" BY <1>1, <2>1, AnswerSend
  <2>2. CASE RunCli(l) # "send"
    <3>1. RunCli(l) \in {"local", "exit", "died"} BY <2>2 DEF RunCli
    <3>2. /\ UNCHANGED <<history, current, call, reply>>
          /\ cpc' = cpc \/ cpc' = [cpc EXCEPT ![c] = "gone"]
      BY <1>1, <2>2, <3>1 DEF TypeLine
    <3>3. \A d \in Clients : cpc'[d] = "prompt" => cpc[d] = "prompt" BY <1>0, <3>2 DEF TypeOK
    <3>4. QED BY <3>2, <3>3, AnswerFrame
  <2>3. QED BY <2>1, <2>2
<1>2. ASSUME NEW c \in Clients, Interrupt(c) PROVE AnswerInv'
  <2>1. UNCHANGED <<history, current, call, reply>> /\ cpc' = [cpc EXCEPT ![c] = "gone"]
    BY <1>2 DEF Interrupt
  <2>2. \A d \in Clients : cpc'[d] = "prompt" => cpc[d] = "prompt" BY <1>0, <2>1 DEF TypeOK
  <2>3. QED BY <2>1, <2>2, AnswerFrame
<1>3. ASSUME NEW c \in Clients, ReceiveReply(c) PROVE AnswerInv'
  <2>1. call[c] = "replied" /\ EndCall(c) BY <1>3 DEF ReceiveReply
  <2>2. PICK a : /\ PrintAnswer(c, a)
                 /\ a = reply[c] \/ (reply[c].kind = "shown" /\ a = Answer("details"))
    BY <1>3 DEF ReceiveReply
  <2>3. Truthful(reply[c].kind, Times(current[c])) BY <1>0, <2>1 DEF StageInv, StageOK
  <2>4. Truthful(a.kind, Times(current[c])) BY <2>2, <2>3, AnswerType DEF Truthful
  <2>5. a \in Answers BY <1>0, <2>2, AnswerType DEF TypeOK
  <2>6. QED BY <2>1, <2>2, <2>4, <2>5, AnswerEnd
<1>4. ASSUME NEW c \in Clients, CouldntConnect(c) PROVE AnswerInv'
  <2>1. PICK a : a = Answer("unavailable") OBVIOUS
  <2>2. a \in Answers /\ a.kind = "unavailable" BY <2>1, AnswerType
  <2>3. call[c] # "none" /\ PrintAnswer(c, a) /\ EndCall(c) BY <1>4, <2>1 DEF CouldntConnect
  <2>4. Times(current[c]) <= 1 BY <1>0, <2>3 DEF StageInv, StageOK
  <2>5. Truthful(a.kind, Times(current[c])) BY <2>2, <2>4 DEF Truthful
  <2>6. QED BY <2>2, <2>3, <2>5, AnswerEnd
<1>5. CASE Start \/ RunGrpcServer \/ AfiInit \/ Finished \/ UNCHANGED vars
  <2>1. UNCHANGED <<cpc, history, current, call, reply>>
    BY <1>5 DEF Start, RunGrpcServer, AfiInit, Finished, vars
  <2>2. QED BY <2>1, AnswerFrame
<1>6. CASE Signal BY <1>6, AnswerExit DEF Signal
<1>7. ASSUME NEW c \in Clients, AcceptCall(c) PROVE AnswerInv'
  <2>1. call[c] = "sent" /\ call' = [call EXCEPT ![c] = "handle"] /\ UNCHANGED <<cpc, history, current, reply>>
    BY <1>7 DEF AcceptCall
  <2>2. StageOK("handle", reply[c].kind, Times(current[c])) BY <1>0, <2>1 DEF StageInv, StageOK
  <2>3. QED BY <1>b, <2>1, <2>2, AnswerCall
<1>8. ASSUME NEW c \in Clients, InvalidCmd(c) PROVE AnswerInv'
  <2>1. PICK a : a = Answer("invalid") OBVIOUS
  <2>2. /\ call[c] = "handle" /\ call' = [call EXCEPT ![c] = "return"]
        /\ reply' = [reply EXCEPT ![c] = a] /\ UNCHANGED <<cpc, history, current>>
    BY <1>8, <2>1 DEF InvalidCmd, Handling, Return
  <2>3. Times(current[c]) = 0 BY <1>0, <2>2 DEF StageInv, StageOK
  <2>4. StageOK("return", a.kind, Times(current[c])) BY <2>1, <2>3, AnswerType DEF StageOK, Truthful
  <2>5. QED BY <2>2, <2>4, AnswerCall
<1>9. ASSUME NEW c \in Clients, Terminate(c) PROVE AnswerInv'
  BY <1>9, AnswerExit DEF Terminate
<1>10. ASSUME NEW c \in Clients, AddTable(c) PROVE AnswerInv'
  <2>1. PICK a : a = Answer("added") OBVIOUS
  <2>2. PICK n : n = LineOf(c)[2] OBVIOUS
  <2>3. /\ call[c] = "handle" /\ Apply(c, n) /\ call' = [call EXCEPT ![c] = "return"]
        /\ reply' = [reply EXCEPT ![c] = a]
    BY <1>10, <2>1, <2>2 DEF AddTable, Handling, Return
  <2>4. StageOK("return", a.kind, 1) BY <2>1, AnswerType DEF StageOK, Truthful
  <2>5. QED BY <2>3, <2>4, AnswerApply
<1>11. ASSUME NEW c \in Clients, AddTableEntry(c) PROVE AnswerInv'
  <2>1. /\ call[c] = "handle" /\ Apply(c, EntryName) /\ call' = [call EXCEPT ![c] = "lookUp"]
        /\ reply' = reply
    BY <1>11 DEF AddTableEntry, Handling
  <2>2. StageOK("lookUp", reply[c].kind, 1) BY DEF StageOK
  <2>3. QED BY <1>b, <2>1, <2>2, AnswerApply
<1>12. ASSUME NEW c \in Clients, LookUpParent(c) PROVE AnswerInv'
  <2>1. PICK a : a = Answer("added") OBVIOUS
  <2>2. /\ call[c] = "lookUp" /\ call' = [call EXCEPT ![c] = "return"]
        /\ reply' = [reply EXCEPT ![c] = a] /\ UNCHANGED <<cpc, history, current>>
    BY <1>12, <2>1 DEF LookUpParent, Return
  <2>3. Times(current[c]) = 1 BY <1>0, <2>2 DEF StageInv, StageOK
  <2>4. StageOK("return", a.kind, Times(current[c])) BY <2>1, <2>3, AnswerType DEF StageOK, Truthful
  <2>5. QED BY <2>2, <2>4, AnswerCall
<1>13. ASSUME NEW c \in Clients, ShowAfiObjects(c) PROVE AnswerInv'
  <2>1. CASE \E n \in Names : objects[n] = "null" BY <1>13, <2>1, AnswerExit DEF ShowAfiObjects
  <2>2. CASE ~(\E n \in Names : objects[n] = "null")
    <3>1. PICK a : a = [kind |-> "shown", names |-> ShownNames, start |-> starts] OBVIOUS
    <3>2. /\ call[c] = "handle" /\ call' = [call EXCEPT ![c] = "return"]
          /\ reply' = [reply EXCEPT ![c] = a] /\ UNCHANGED <<cpc, history, current>>
      BY <1>13, <2>2, <3>1 DEF ShowAfiObjects, Return, Handling
    <3>3. Times(current[c]) = 0 BY <1>0, <3>2 DEF StageInv, StageOK
    <3>4. StageOK("return", a.kind, Times(current[c])) BY <3>1, <3>3 DEF StageOK, Truthful
    <3>5. QED BY <3>2, <3>4, AnswerCall
  <2>3. QED BY <2>1, <2>2
<1>14. ASSUME NEW c \in Clients, SendReply(c) PROVE AnswerInv'
  <2>1. call[c] = "return" /\ call' = [call EXCEPT ![c] = "replied"] /\ UNCHANGED <<cpc, history, current, reply>>
    BY <1>14 DEF SendReply
  <2>2. StageOK("replied", reply[c].kind, Times(current[c])) BY <1>0, <2>1 DEF StageInv, StageOK
  <2>3. QED BY <1>b, <2>1, <2>2, AnswerCall
<1>15. QED
  BY <1>1, <1>2, <1>3, <1>4, <1>5, <1>6, <1>7, <1>8, <1>9, <1>10, <1>11, <1>12, <1>13, <1>14
  DEF Next, Client, SendCmd

LEMMA AnswerInvariant == Spec => [](TypeInv /\ AnswerInv)
<1>1. Init => AnswerInv
  <2> SUFFICES ASSUME Init PROVE AnswerInv OBVIOUS
  <2>1. history = <<>> BY DEF Init
  <2>2. Len(history) = 0 BY <2>1
  <2>3. QED BY <2>2 DEF Init, AnswerInv, CallInv, StageInv, TruthInv
<1>2. TypeInv /\ AnswerInv /\ [Next]_vars => AnswerInv' BY AnswerStep
<1>3. QED BY <1>1, <1>2, TypeInvariant, PTL DEF Spec

-----------------------------------------------------------------------------
(* Objects.                                                                *)

\* What the running agent was told to add is in its map.
InMap ==
    \A i \in 1..Len(history) : up /\ starts \in Range(history[i].applied) =>
        NameOf(history[i].line) \in Names /\ objects[NameOf(history[i].line)] = "object"

\* Only the table that entries look up can be null.
OnlyTableNull == \A n \in Names : objects[n] = "null" => n = LpmName

MapInv == InMap /\ OnlyTableNull

\* The inductive step for the map.
LEMMA MapStep ==
    ASSUME TypeInv, MapInv, [Next]_vars
    PROVE  MapInv'
<1>0. InMap /\ OnlyTableNull /\ TypeOK /\ RunInv /\ HistoryOK /\ starts \in Nat /\ Len(history) \in Nat
      /\ objects \in [Names -> {"absent", "null", "object"}]
  BY DEF MapInv, TypeInv, TypeOK, HistoryOK
<1> USE DEF clientVars, callVars, agentVars
<1>1. ASSUME UNCHANGED <<objects, up, starts>>, Len(history') = Len(history),
             \A i \in 1..Len(history) : /\ history'[i].line = history[i].line
                                        /\ history'[i].applied = history[i].applied
      PROVE  MapInv'
  BY <1>0, <1>1 DEF MapInv, InMap, OnlyTableNull
<1>2. ASSUME Exit PROVE MapInv'
  BY <1>2 DEF Exit, MapInv, InMap, OnlyTableNull
<1>3. ASSUME NEW c \in Clients, NEW l \in Lines, TypeLine(c, l) PROVE MapInv'
  <2>1. UNCHANGED <<objects, up, starts>> BY <1>3 DEF TypeLine
  <2>2. CASE RunCli(l) = "send"
    <3>1. /\ Len(history') = Len(history) + 1
          /\ \A i \in 1..Len(history) : history'[i] = history[i]
          /\ history'[Len(history) + 1].applied = <<>>
      BY <1>3, <2>2, SendHistory
    <3>2. Range(<<>>) = {} BY DEF Range
    <3>3. InMap'
      <4> SUFFICES ASSUME NEW i \in 1..Len(history'), up', starts' \in Range(history'[i].applied)
                   PROVE  /\ NameOf(history'[i].line) \in Names
                          /\ objects'[NameOf(history'[i].line)] = "object"
        BY DEF InMap
      <4>1. i # Len(history) + 1 BY <3>1, <3>2
      <4>2. i \in 1..Len(history) /\ history'[i] = history[i] BY <1>0, <3>1, <4>1
      <4>3. QED BY <1>0, <2>1, <4>2 DEF InMap
    <3>4. QED BY <1>0, <2>1, <3>3 DEF MapInv, OnlyTableNull
  <2>3. CASE RunCli(l) # "send"
    <3>1. RunCli(l) \in {"local", "exit", "died"} BY <2>3 DEF RunCli
    <3>2. UNCHANGED history BY <1>3, <2>3, <3>1 DEF TypeLine
    <3>3. QED BY <1>1, <2>1, <3>2
  <2>4. QED BY <2>2, <2>3
<1>4. ASSUME NEW c \in Clients, Interrupt(c) PROVE MapInv' BY <1>1, <1>4 DEF Interrupt
<1>5. ASSUME NEW c \in Clients, ReceiveReply(c) \/ CouldntConnect(c) PROVE MapInv'
  <2>1. call[c] # "none" /\ UNCHANGED <<objects, up, starts>>
    BY <1>5 DEF ReceiveReply, CouldntConnect
  <2>2. \E a \in Answers : PrintAnswer(c, a)
    BY <1>0, <1>5, AnswerType DEF ReceiveReply, CouldntConnect, TypeOK
  <2>3. QED BY <1>1, <2>1, <2>2, PrintHistory
<1>6. CASE Start
  <2>1. starts' = starts + 1 /\ UNCHANGED <<history, objects>> BY <1>6 DEF Start
  <2>2. ASSUME NEW i \in 1..Len(history) PROVE starts + 1 \notin Range(history[i].applied)
    <3>1. PICK s : s = history[i].applied OBVIOUS
    <3>2. s \in Seq(1..starts) BY <1>0, <3>1 DEF TypeOK
    <3>3. DOMAIN s = 1..Len(s) BY <3>2
    <3>4. \A e \in Range(s) : e \in 1..starts BY <3>2, <3>3, ElementOfSeq, Zenon DEF Range
    <3>5. QED BY <1>0, <3>1, <3>4
  <2>3. QED BY <1>0, <2>1, <2>2 DEF MapInv, InMap, OnlyTableNull
<1>7. CASE RunGrpcServer \/ AfiInit \/ Finished \/ UNCHANGED vars
  BY <1>1, <1>7 DEF RunGrpcServer, AfiInit, Finished, vars
<1>8. CASE Signal BY <1>2, <1>8 DEF Signal
<1>9. ASSUME NEW c \in Clients, AcceptCall(c) \/ InvalidCmd(c) \/ SendReply(c) PROVE MapInv'
  BY <1>1, <1>9 DEF AcceptCall, InvalidCmd, SendReply
<1>10. ASSUME NEW c \in Clients, Terminate(c) PROVE MapInv' BY <1>2, <1>10 DEF Terminate
<1>11. ASSUME NEW c \in Clients, call[c] = "handle", NEW n \in Names, Apply(c, n),
              n = NameOf(LineOf(c))
       PROVE  MapInv'
  <2>1. objects' = [objects EXCEPT ![n] = "object"] /\ UNCHANGED <<up, starts>>
    BY <1>11 DEF Apply, InsertObject
  <2>2. /\ objects'[n] = "object" /\ \A m \in Names : m # n => objects'[m] = objects[m]
    BY <1>0, <2>1
  <2>3. /\ Len(history') = Len(history)
        /\ \A i \in 1..Len(history) :
              /\ history'[i].line = history[i].line
              /\ i # current[c] => history'[i].applied = history[i].applied
    BY <1>11, ApplyHistory
  <2>4. InMap'
    <3> SUFFICES ASSUME NEW i \in 1..Len(history), up, starts \in Range(history'[i].applied)
                 PROVE  /\ NameOf(history[i].line) \in Names
                        /\ objects'[NameOf(history[i].line)] = "object"
      BY <2>1, <2>3 DEF InMap
    <3>1. CASE i = current[c] BY <1>11, <2>2, <3>1 DEF LineOf
    <3>2. CASE i # current[c]
      <4>1. NameOf(history[i].line) \in Names /\ objects[NameOf(history[i].line)] = "object"
        BY <1>0, <2>3, <3>2 DEF InMap
      <4>2. QED BY <2>2, <4>1
    <3>3. QED BY <3>1, <3>2
  <2>5. OnlyTableNull' BY <1>0, <2>2 DEF OnlyTableNull
  <2>6. QED BY <2>4, <2>5 DEF MapInv
<1>12. ASSUME NEW c \in Clients, AddTable(c) PROVE MapInv'
  <2>1. call[c] = "handle" /\ LineOf(c)[1] = "add-table" /\ LineOf(c)[2] \in Names
    BY <1>12, HandlingLine, CommandLine DEF AddTable
  <2>2. LineOf(c)[2] = NameOf(LineOf(c)) BY <2>1 DEF NameOf
  <2>3. Apply(c, LineOf(c)[2]) BY <1>12 DEF AddTable
  <2>4. QED BY <1>11, <2>1, <2>2, <2>3
<1>13. ASSUME NEW c \in Clients, AddTableEntry(c) PROVE MapInv'
  <2>1. call[c] = "handle" /\ LineOf(c)[1] = "add-table-entry"
    BY <1>13, HandlingLine, CommandLine DEF AddTableEntry
  <2>2. EntryName = NameOf(LineOf(c)) BY <2>1 DEF NameOf
  <2>3. Apply(c, EntryName) /\ EntryName \in Names BY <1>13 DEF AddTableEntry
  <2>4. QED BY <1>11, <2>1, <2>2, <2>3
<1>14. ASSUME NEW c \in Clients, LookUpParent(c) PROVE MapInv'
  <2>1. UNCHANGED <<history, up, starts>> BY <1>14 DEF LookUpParent
  <2>2. objects' = IF objects[LpmName] = "absent" THEN [objects EXCEPT ![LpmName] = "null"] ELSE objects
    BY <1>14 DEF LookUpParent, LookUpTable
  <2>3. CASE objects[LpmName] = "absent"
    <3>1. objects'[LpmName] = "null" /\ \A m \in Names : m # LpmName => objects'[m] = objects[m]
      BY <1>0, <2>2, <2>3
    <3>2. InMap' BY <1>0, <2>1, <2>3, <3>1 DEF InMap
    <3>3. OnlyTableNull' BY <1>0, <3>1 DEF OnlyTableNull
    <3>4. QED BY <3>2, <3>3 DEF MapInv
  <2>4. CASE objects[LpmName] # "absent" BY <1>1, <2>1, <2>2, <2>4
  <2>5. QED BY <2>3, <2>4
<1>15. ASSUME NEW c \in Clients, ShowAfiObjects(c) PROVE MapInv'
  BY <1>1, <1>2, <1>15 DEF ShowAfiObjects
<1>16. QED
  BY <1>3, <1>4, <1>5, <1>6, <1>7, <1>8, <1>9, <1>10, <1>12, <1>13, <1>14, <1>15
  DEF Next, Client, SendCmd

LEMMA MapInvariant == Spec => []MapInv
<1>1. Init => MapInv
  <2> SUFFICES ASSUME Init PROVE MapInv OBVIOUS
  <2>1. history = <<>> /\ \A n \in Names : objects[n] = "absent" BY DEF Init
  <2>2. Len(history) = 0 BY <2>1
  <2>3. QED BY <2>1, <2>2 DEF MapInv, InMap, OnlyTableNull
<1>2. TypeInv /\ MapInv /\ [Next]_vars => MapInv' BY MapStep
<1>3. QED BY <1>1, <1>2, TypeInvariant, PTL DEF Spec

\* After the table of the entries has been added no command leaves a null object
\* behind, so show-afi-objects does not end the agent: for every set of names,
\* clients and commands.
THEOREM NullsGone == Spec => []NoNullAfterTable
<1>1. MapInv => NoNullAfterTable
  <2> SUFFICES ASSUME MapInv, up, LpmName \in AddedBy(1..Len(history), starts), NEW n \in Names
               PROVE  objects[n] # "null"
    BY DEF NoNullAfterTable
  <2>1. PICK i \in 1..Len(history) :
            starts \in Range(history[i].applied) /\ NameOf(history[i].line) = LpmName
    BY DEF AddedBy
  <2>2. objects[LpmName] = "object" BY <2>1 DEF MapInv, InMap
  <2>3. QED BY <2>2 DEF MapInv, OnlyTableNull
<1>2. QED BY <1>1, MapInvariant, PTL

-----------------------------------------------------------------------------
(* What show-afi-objects lists.                                            *)

\* The lines recorded as answered before another one were.
BeforeInv == \A i \in 1..Len(history) : history[i].before \subseteq Added

\* A reply with objects has those of the lines that were answered before.
ReplyInv ==
    \A c \in Clients : call[c] \in {"return", "replied"} /\ reply[c].kind = "shown" =>
        AddedBy(history[current[c]].before, reply[c].start) \subseteq reply[c].names

ShowInv == BeforeInv /\ ReplyInv /\ ShowSeesAdded

\* A line that has been answered is not touched again.
LEMMA AnsweredKept ==
    ASSUME TypeInv, AnswerInv, [Next]_vars
    PROVE  /\ Len(history) \in Nat /\ Len(history') \in Nat /\ Len(history) <= Len(history')
           /\ \A i \in 1..Len(history) :
                /\ history'[i].before = history[i].before
                /\ history[i].answer.kind # "none" =>
                      /\ history'[i].line = history[i].line
                      /\ history'[i].applied = history[i].applied
                      /\ history'[i].answer = history[i].answer
<1> DEFINE Goal ==
      /\ Len(history) \in Nat /\ Len(history') \in Nat /\ Len(history) <= Len(history')
      /\ \A i \in 1..Len(history) :
           /\ history'[i].before = history[i].before
           /\ history[i].answer.kind # "none" =>
                 /\ history'[i].line = history[i].line
                 /\ history'[i].applied = history[i].applied
                 /\ history'[i].answer = history[i].answer
<1>0. Len(history) \in Nat /\ TypeOK /\ StageInv BY DEF TypeInv, HistoryOK, AnswerInv
<1> USE DEF clientVars, callVars, agentVars
<1>1. ASSUME UNCHANGED history PROVE Goal BY <1>0, <1>1
<1>2. ASSUME NEW c \in Clients, NEW l \in Lines, TypeLine(c, l) PROVE Goal
  <2>1. CASE RunCli(l) = "send" BY <1>0, <1>2, <2>1, SendHistory
  <2>2. CASE RunCli(l) # "send"
    <3>1. RunCli(l) \in {"local", "exit", "died"} BY <2>2 DEF RunCli
    <3>2. QED BY <1>1, <1>2, <2>2, <3>1 DEF TypeLine
  <2>3. QED BY <2>1, <2>2
<1>3. ASSUME NEW c \in Clients, ReceiveReply(c) \/ CouldntConnect(c) PROVE Goal
  <2>1. call[c] # "none" BY <1>3 DEF ReceiveReply, CouldntConnect
  <2>2. PICK a \in Answers : PrintAnswer(c, a)
    BY <1>0, <1>3, AnswerType DEF ReceiveReply, CouldntConnect, TypeOK
  <2>3. history[current[c]].answer.kind = "none" BY <1>0, <2>1 DEF StageInv
  <2>4. /\ Len(history') = Len(history)
        /\ \A i \in 1..Len(history) :
              /\ history'[i].line = history[i].line
              /\ history'[i].applied = history[i].applied
              /\ history'[i].before = history[i].before
              /\ history'[i].answer = history[i].answer \/ i = current[c]
    BY <2>1, <2>2, PrintHistory
  <2>5. QED BY <1>0, <2>3, <2>4
<1>4. ASSUME NEW c \in Clients, AddTable(c) \/ AddTableEntry(c) PROVE Goal
  <2>1. call[c] # "none" /\ \E n : Apply(c, n) BY <1>4 DEF AddTable, AddTableEntry, Handling
  <2>2. history[current[c]].answer.kind = "none" BY <1>0, <2>1 DEF StageInv
  <2>3. QED BY <1>0, <2>1, <2>2, ApplyHistory
<1>5. ASSUME NEW c \in Clients,
             \/ Interrupt(c) \/ AcceptCall(c) \/ InvalidCmd(c) \/ Terminate(c) \/ LookUpParent(c)
             \/ ShowAfiObjects(c) \/ SendReply(c)
      PROVE  Goal
  BY <1>1, <1>5 DEF Interrupt, AcceptCall, InvalidCmd, Terminate, LookUpParent, ShowAfiObjects,
                    SendReply, Exit
<1>6. CASE Start \/ RunGrpcServer \/ AfiInit \/ Signal \/ Finished \/ UNCHANGED vars
  BY <1>1, <1>6 DEF Start, RunGrpcServer, AfiInit, Signal, Exit, Finished, vars
<1>7. QED BY <1>2, <1>3, <1>4, <1>5, <1>6 DEF Next, Client, SendCmd

\* So what such lines have added in a run of the agent stays the same.
LEMMA AddedByKept ==
    ASSUME TypeInv, AnswerInv, [Next]_vars, NEW S, S \subseteq Added, NEW r
    PROVE  S \subseteq Added' /\ AddedBy(S, r)' = AddedBy(S, r)
<1>1. \A j \in S : j \in 1..Len(history) /\ history[j].answer.kind = "added" BY DEF Added
<1>2. \A j \in S : /\ j \in 1..Len(history') /\ history'[j].line = history[j].line
                   /\ history'[j].applied = history[j].applied
                   /\ history'[j].answer = history[j].answer
  BY <1>1, AnsweredKept
<1>3. S \subseteq Added' BY <1>1, <1>2 DEF Added
<1>4. AddedBy(S, r)' = AddedBy(S, r) BY <1>2 DEF AddedBy
<1>5. QED BY <1>3, <1>4

\* Where a reply with objects comes from.
LEMMA ShownReplies ==
    ASSUME TypeInv, [Next]_vars, NEW d \in Clients,
           call'[d] \in {"return", "replied"}, reply'[d].kind = "shown"
    PROVE  \/ /\ call[d] \in {"return", "replied"} /\ reply'[d] = reply[d]
              /\ current'[d] = current[d]
           \/ /\ call[d] = "handle" /\ UNCHANGED <<history, current>>
              /\ reply'[d].names = ShownNames /\ reply'[d].start = starts
<1> DEFINE Goal == \/ /\ call[d] \in {"return", "replied"} /\ reply'[d] = reply[d]
                      /\ current'[d] = current[d]
                   \/ /\ call[d] = "handle" /\ UNCHANGED <<history, current>>
                      /\ reply'[d].names = ShownNames /\ reply'[d].start = starts
<1>0. /\ call \in [Clients -> {"none", "sent", "handle", "lookUp", "return", "replied", "lost"}]
      /\ reply \in [Clients -> Answers] /\ DOMAIN current = Clients
  BY DEF TypeInv, TypeOK
<1> USE DEF clientVars, callVars, agentVars
<1>1. ASSUME call'[d] = call[d], reply'[d] = reply[d], current'[d] = current[d] PROVE Goal
  BY <1>1
<1>2. ASSUME NEW c \in Clients, NEW l \in Lines, TypeLine(c, l) PROVE Goal
  <2>1. CASE RunCli(l) = "send"
    <3>1. /\ current' = [current EXCEPT ![c] = Len(history) + 1] /\ call' = [call EXCEPT ![c] = "sent"]
          /\ reply' = reply
      BY <1>2, <2>1, SendHistory DEF TypeLine
    <3>2. d # c BY <1>0, <3>1
    <3>3. QED BY <1>0, <1>1, <3>1, <3>2
  <2>2. CASE RunCli(l) # "send"
    <3>1. RunCli(l) \in {"local", "exit", "died"} BY <2>2 DEF RunCli
    <3>2. QED BY <1>1, <1>2, <2>2, <3>1 DEF TypeLine
  <2>3. QED BY <2>1, <2>2
<1>3. ASSUME NEW c \in Clients, ReceiveReply(c) \/ CouldntConnect(c) PROVE Goal
  <2>1. EndCall(c) BY <1>3 DEF ReceiveReply, CouldntConnect
  <2>2. QED BY <1>0, <1>1, <2>1 DEF EndCall
<1>4. ASSUME NEW c \in Clients, NEW a, Return(c, a), a.kind # "shown", UNCHANGED current PROVE Goal
  BY <1>0, <1>1, <1>4 DEF Return
<1>5. ASSUME NEW c \in Clients, InvalidCmd(c) PROVE Goal
  <2>1. PICK a : a = Answer("invalid") OBVIOUS
  <2>2. Return(c, a) /\ UNCHANGED current /\ a.kind # "shown" BY <1>5, <2>1, AnswerType DEF InvalidCmd
  <2>3. QED BY <1>4, <2>2
<1>6. ASSUME NEW c \in Clients, AddTable(c) \/ LookUpParent(c) PROVE Goal
  <2>1. PICK a : a = Answer("added") OBVIOUS
  <2>2. Return(c, a) /\ UNCHANGED current /\ a.kind # "shown"
    BY <1>6, <2>1, AnswerType DEF AddTable, LookUpParent, Apply
  <2>3. QED BY <1>4, <2>2
<1>7. ASSUME NEW c \in Clients, AddTableEntry(c) PROVE Goal
  BY <1>0, <1>1, <1>7 DEF AddTableEntry, Apply
<1>8. ASSUME Exit PROVE Goal
  <2>1. \A c \in Clients : /\ call'[c] = IF c \in Served THEN "lost" ELSE call[c]
                           /\ reply'[c] = IF c \in Served THEN Answer("none") ELSE reply[c]
    BY <1>8 DEF Exit
  <2>2. d \notin Served BY <2>1
  <2>3. QED BY <1>1, <1>8, <2>1, <2>2 DEF Exit
<1>9. ASSUME NEW c \in Clients, ShowAfiObjects(c) PROVE Goal
  <2>1. CASE \E n \in Names : objects[n] = "null" BY <1>8, <1>9, <2>1 DEF ShowAfiObjects
  <2>2. CASE ~(\E n \in Names : objects[n] = "null")
    <3>1. PICK a : a = [kind |-> "shown", names |-> ShownNames, start |-> starts] OBVIOUS
    <3>2. /\ call[c] = "handle" /\ call' = [call EXCEPT ![c] = "return"]
          /\ reply' = [reply EXCEPT ![c] = a] /\ UNCHANGED <<history, current>>
      BY <1>9, <2>2, <3>1 DEF ShowAfiObjects, Return, Handling
    <3>3. CASE d = c BY <1>0, <3>1, <3>2, <3>3
    <3>4. CASE d # c BY <1>0, <1>1, <3>2, <3>4
    <3>5. QED BY <3>3, <3>4
  <2>3. QED BY <2>1, <2>2
<1>10. ASSUME NEW c \in Clients, AcceptCall(c) PROVE Goal BY <1>0, <1>1, <1>10 DEF AcceptCall
<1>11. ASSUME NEW c \in Clients, SendReply(c) PROVE Goal BY <1>0, <1>1, <1>11 DEF SendReply
<1>12. ASSUME NEW c \in Clients, Interrupt(c) PROVE Goal BY <1>1, <1>12 DEF Interrupt
<1>13. ASSUME NEW c \in Clients, Terminate(c) PROVE Goal BY <1>8, <1>13 DEF Terminate
<1>14. CASE Start \/ RunGrpcServer \/ AfiInit \/ Signal \/ Finished \/ UNCHANGED vars
  BY <1>1, <1>8, <1>14 DEF Start, RunGrpcServer, AfiInit, Signal, Finished, vars
<1>15. QED
  BY <1>2, <1>3, <1>5, <1>6, <1>7, <1>9, <1>10, <1>11, <1>12, <1>13, <1>14 DEF Next, Client, SendCmd

\* Where an answer with objects, or that something was added, comes from.
LEMMA PrintedAnswers ==
    ASSUME TypeInv, [Next]_vars, NEW i \in 1..Len(history'),
           history'[i].answer.kind \in {"shown", "added"}
    PROVE  \/ i \in 1..Len(history) /\ history'[i].answer = history[i].answer
           \/ \E c \in Clients : /\ call[c] = "replied" /\ i = current[c]
                                 /\ history'[i].answer = reply[c]
<1> DEFINE Goal == \/ i \in 1..Len(history) /\ history'[i].answer = history[i].answer
                   \/ \E c \in Clients : /\ call[c] = "replied" /\ i = current[c]
                                         /\ history'[i].answer = reply[c]
<1>0. TypeOK BY DEF TypeInv
<1> USE DEF clientVars, callVars, agentVars
<1>1. ASSUME UNCHANGED history PROVE Goal BY <1>1
<1>2. ASSUME NEW c \in Clients, NEW l \in Lines, TypeLine(c, l) PROVE Goal
  <2>1. CASE RunCli(l) = "send"
    <3>1. /\ Len(history) \in Nat /\ Len(history') = Len(history) + 1
          /\ \A j \in 1..Len(history) : history'[j] = history[j]
          /\ history'[Len(history) + 1].answer = Answer("none")
      BY <1>2, <2>1, SendHistory
    <3>2. i # Len(history) + 1 BY <3>1, AnswerType
    <3>3. QED BY <3>1, <3>2
  <2>2. CASE RunCli(l) # "send"
    <3>1. RunCli(l) \in {"local", "exit", "died"} BY <2>2 DEF RunCli
    <3>2. QED BY <1>1, <1>2, <2>2, <3>1 DEF TypeLine
  <2>3. QED BY <2>1, <2>2
<1>3. ASSUME NEW c \in Clients, ReceiveReply(c) PROVE Goal
  <2>1. call[c] = "replied" BY <1>3 DEF ReceiveReply
  <2>2. PICK a : PrintAnswer(c, a) /\ a \in {reply[c], Answer("details")} BY <1>3 DEF ReceiveReply
  <2>3. a \in Answers BY <1>0, <2>2, AnswerType DEF TypeOK
  <2>4. QED BY <2>1, <2>2, <2>3, PrintHistory, AnswerType
<1>4. ASSUME NEW c \in Clients, CouldntConnect(c) PROVE Goal
  <2>1. call[c] # "none" /\ PrintAnswer(c, Answer("unavailable")) BY <1>4 DEF CouldntConnect
  <2>2. QED BY <2>1, PrintHistory, AnswerType
<1>5. ASSUME NEW c \in Clients, AddTable(c) \/ AddTableEntry(c) PROVE Goal
  <2>1. call[c] # "none" /\ \E n : Apply(c, n) BY <1>5 DEF AddTable, AddTableEntry, Handling
  <2>2. QED BY <2>1, ApplyHistory
<1>6. ASSUME NEW c \in Clients,
             \/ Interrupt(c) \/ AcceptCall(c) \/ InvalidCmd(c) \/ Terminate(c) \/ LookUpParent(c)
             \/ ShowAfiObjects(c) \/ SendReply(c)
      PROVE  Goal
  BY <1>1, <1>6 DEF Interrupt, AcceptCall, InvalidCmd, Terminate, LookUpParent, ShowAfiObjects,
                    SendReply, Exit
<1>7. CASE Start \/ RunGrpcServer \/ AfiInit \/ Signal \/ Finished \/ UNCHANGED vars
  BY <1>1, <1>7 DEF Start, RunGrpcServer, AfiInit, Signal, Exit, Finished, vars
<1>8. QED BY <1>2, <1>3, <1>4, <1>5, <1>6, <1>7 DEF Next, Client, SendCmd

\* The inductive step for what is shown.
LEMMA ShowStep ==
    ASSUME TypeInv, AnswerInv, MapInv, ShowInv, [Next]_vars
    PROVE  ShowInv'
<1>0. BeforeInv /\ ReplyInv /\ ShowSeesAdded /\ Len(history) \in Nat /\ RunInv
  BY DEF ShowInv, TypeInv, HistoryOK
<1>1. \A i \in 1..Len(history) :
         i \in 1..Len(history') /\ history'[i].before = history[i].before
  BY AnsweredKept
<1>2. ASSUME NEW i \in 1..Len(history'), i \notin 1..Len(history)
      PROVE  history'[i].before \subseteq Added
  <2>1. ASSUME NEW c \in Clients, NEW l \in Lines, TypeLine(c, l), RunCli(l) = "send"
        PROVE  history'[i].before \subseteq Added
    <3>1. /\ Len(history') = Len(history) + 1
          /\ history'[Len(history) + 1].before = Added
      BY <2>1, SendHistory
    <3>2. i = Len(history) + 1 BY <1>0, <1>2, <3>1
    <3>3. QED BY <3>1, <3>2
  <2>2. ASSUME Len(history') = Len(history) PROVE FALSE BY <1>2, <2>2
  <2>3. ASSUME NEW c \in Clients, NEW l \in Lines, TypeLine(c, l), RunCli(l) # "send" PROVE FALSE
    <3>1. RunCli(l) \in {"local", "exit", "died"} BY <2>3 DEF RunCli
    <3>2. QED BY <2>2, <2>3, <3>1 DEF TypeLine, clientVars
  <2>4. ASSUME NEW c \in Clients, ReceiveReply(c) \/ CouldntConnect(c) PROVE FALSE
    <3>1. call[c] # "none" BY <2>4 DEF ReceiveReply, CouldntConnect
    <3>2. \E a \in Answers : PrintAnswer(c, a)
      BY <2>4, AnswerType DEF ReceiveReply, CouldntConnect, TypeInv, TypeOK
    <3>3. QED BY <2>2, <3>1, <3>2, PrintHistory
  <2>5. ASSUME NEW c \in Clients, AddTable(c) \/ AddTableEntry(c) PROVE FALSE
    <3>1. call[c] # "none" /\ \E n : Apply(c, n) BY <2>5 DEF AddTable, AddTableEntry, Handling
    <3>2. QED BY <2>2, <3>1, ApplyHistory
  <2>6. ASSUME NEW c \in Clients,
               \/ Interrupt(c) \/ AcceptCall(c) \/ InvalidCmd(c) \/ Terminate(c) \/ LookUpParent(c)
               \/ ShowAfiObjects(c) \/ SendReply(c)
        PROVE  FALSE
    BY <2>2, <2>6 DEF Interrupt, AcceptCall, InvalidCmd, Terminate, LookUpParent, ShowAfiObjects,
                      SendReply, Exit, clientVars
  <2>7. Start \/ RunGrpcServer \/ AfiInit \/ Signal \/ Finished \/ UNCHANGED vars => FALSE
    BY <2>2 DEF Start, RunGrpcServer, AfiInit, Signal, Exit, Finished, vars, clientVars
  <2>8. QED BY <2>1, <2>3, <2>4, <2>5, <2>6, <2>7 DEF Next, Client, SendCmd
<1>3. BeforeInv'
  <2> SUFFICES ASSUME NEW i \in 1..Len(history') PROVE history'[i].before \subseteq Added'
    BY DEF BeforeInv
  <2>1. PICK B : B = history'[i].before OBVIOUS
  <2>2. B \subseteq Added
    <3>1. CASE i \in 1..Len(history) BY <1>0, <1>1, <2>1, <3>1 DEF BeforeInv
    <3>2. CASE i \notin 1..Len(history) BY <1>2, <2>1, <3>2
    <3>3. QED BY <3>1, <3>2
  <2>3. QED BY <2>1, <2>2, AddedByKept
<1>4. ReplyInv'
  <2> SUFFICES ASSUME NEW d \in Clients, call'[d] \in {"return", "replied"}, reply'[d].kind = "shown"
               PROVE  AddedBy(history[current[d]].before, reply[d].start)' \subseteq reply'[d].names
    BY DEF ReplyInv
  <2>1. call[d] # "none" /\ current'[d] = current[d] BY ShownReplies
  <2>2. current[d] \in 1..Len(history) BY <2>1, CurrentType
  <2>3. PICK B : B = history[current[d]].before OBVIOUS
  <2>4. PICK r : r = reply'[d].start OBVIOUS
  <2>5. B \subseteq Added /\ history'[current'[d]].before = B BY <1>0, <1>1, <2>1, <2>2, <2>3 DEF BeforeInv
  <2>6. AddedBy(history[current[d]].before, reply[d].start)' = AddedBy(B, r)'
    BY <2>4, <2>5 DEF AddedBy
  <2>7. AddedBy(B, r)' = AddedBy(B, r) BY <2>5, AddedByKept
  <2>8. AddedBy(B, r) \subseteq reply'[d].names
    <3>1. CASE call[d] \in {"return", "replied"} /\ reply'[d] = reply[d]
      BY <1>0, <2>3, <2>4, <3>1 DEF ReplyInv
    <3>2. CASE call[d] = "handle" /\ reply'[d].names = ShownNames /\ reply'[d].start = starts
      <4>1. up BY <1>0, <3>2 DEF RunInv, Served
      <4>2. SUFFICES ASSUME NEW j \in B, starts \in Range(history[j].applied)
                     PROVE  NameOf(history[j].line) \in ShownNames
        BY <2>4, <3>2 DEF AddedBy
      <4>3. j \in 1..Len(history) BY <2>5 DEF Added
      <4>4. NameOf(history[j].line) \in Names /\ objects[NameOf(history[j].line)] = "object"
        BY <4>1, <4>2, <4>3 DEF MapInv, InMap
      <4>5. QED BY <4>4 DEF ShownNames
    <3>3. QED BY <3>1, <3>2, ShownReplies
  <2>9. QED BY <2>6, <2>7, <2>8
<1>5. ShowSeesAdded'
  <2> SUFFICES ASSUME NEW i \in 1..Len(history'), history'[i].answer.kind = "shown"
               PROVE  AddedBy(history[i].before, history[i].answer.start)' \subseteq history'[i].answer.names
    BY DEF ShowSeesAdded
  <2>1. PICK B : B = history'[i].before OBVIOUS
  <2>2. PICK a : a = history'[i].answer OBVIOUS
  <2>3. i \in 1..Len(history) BY <2>1, PrintedAnswers, CurrentType
  <2>4. B = history[i].before /\ B \subseteq Added BY <1>0, <1>1, <2>1, <2>3 DEF BeforeInv
  <2>5. AddedBy(B, a.start)' = AddedBy(B, a.start) BY <2>4, AddedByKept
  <2>6. AddedBy(B, a.start) \subseteq a.names
    <3>1. CASE a = history[i].answer BY <1>0, <2>2, <2>3, <2>4, <3>1 DEF ShowSeesAdded
    <3>2. ASSUME NEW c \in Clients, call[c] = "replied", i = current[c], a = reply[c]
          PROVE  AddedBy(B, a.start) \subseteq a.names
      BY <1>0, <2>2, <2>4, <3>2 DEF ReplyInv
    <3>3. QED BY <2>2, <3>1, <3>2, PrintedAnswers
  <2>7. QED BY <2>1, <2>2, <2>5, <2>6 DEF AddedBy
<1>6. QED BY <1>3, <1>4, <1>5 DEF ShowInv

LEMMA ShowInvariant == Spec => []ShowInv
<1>1. Init => ShowInv
  <2> SUFFICES ASSUME Init PROVE ShowInv OBVIOUS
  <2>1. history = <<>> BY DEF Init
  <2>2. Len(history) = 0 BY <2>1
  <2>3. QED BY <2>2 DEF Init, ShowInv, BeforeInv, ReplyInv, ShowSeesAdded
<1>2. TypeInv /\ AnswerInv /\ MapInv /\ ShowInv /\ [Next]_vars => ShowInv' BY ShowStep
<1>3. QED BY <1>1, <1>2, AnswerInvariant, MapInvariant, PTL DEF Spec

\* show-afi-objects lists every object whose command had been answered when it
\* was typed, unless the agent was started anew in between.
THEOREM ShowsAdded == Spec => []ShowSeesAdded
<1>1. ShowInv => ShowSeesAdded BY DEF ShowInv
<1>2. QED BY <1>1, ShowInvariant, PTL

-----------------------------------------------------------------------------
(* What is set up in the target.                                           *)

\* An entry that looks its table up was carried out by the running agent.
LookUpInv ==
    \A c \in Clients : call[c] = "lookUp" =>
        /\ Range(history[current[c]].applied) = {starts}
        /\ history[current[c]].line[1] # "add-table"

\* "Added" is replied, and answered, when what can be set up has been.
ReplyInstalled ==
    \A c \in Clients : call[c] \in {"return", "replied"} /\ reply[c].kind = "added" =>
        (Ready(current[c]) => current[c] \in installed)
AnswerInstalled ==
    \A i \in 1..Len(history) : history[i].answer.kind = "added" =>
        (Ready(i) => i \in installed)

InstallInv == LookUpInv /\ ReplyInstalled /\ AnswerInstalled

\* Lines stay what they are, and only a command of the debug line carries its
\* own one out.
LEMMA LineKept ==
    ASSUME TypeInv, [Next]_vars, NEW i \in 1..Len(history)
    PROVE  /\ history'[i].line = history[i].line /\ history'[i].before = history[i].before
           /\ \/ history'[i].applied = history[i].applied
              \/ \E c \in Clients : current[c] = i /\ call[c] = "handle"
<1> DEFINE Goal ==
      /\ history'[i].line = history[i].line /\ history'[i].before = history[i].before
      /\ \/ history'[i].applied = history[i].applied
         \/ \E c \in Clients : current[c] = i /\ call[c] = "handle"
<1>0. TypeOK BY DEF TypeInv
<1> USE DEF clientVars, callVars, agentVars
<1>1. ASSUME UNCHANGED history PROVE Goal BY <1>1
<1>2. ASSUME NEW c \in Clients, NEW l \in Lines, TypeLine(c, l) PROVE Goal
  <2>1. CASE RunCli(l) = "send" BY <1>2, <2>1, SendHistory
  <2>2. CASE RunCli(l) # "send"
    <3>1. RunCli(l) \in {"local", "exit", "died"} BY <2>2 DEF RunCli
    <3>2. QED BY <1>1, <1>2, <2>2, <3>1 DEF TypeLine
  <2>3. QED BY <2>1, <2>2
<1>3. ASSUME NEW c \in Clients, ReceiveReply(c) \/ CouldntConnect(c) PROVE Goal
  <2>1. call[c] # "none" BY <1>3 DEF ReceiveReply, CouldntConnect
  <2>2. PICK a \in Answers : PrintAnswer(c, a)
    BY <1>0, <1>3, AnswerType DEF ReceiveReply, CouldntConnect, TypeOK
  <2>3. QED BY <2>1, <2>2, PrintHistory
<1>4. ASSUME NEW c \in Clients, AddTable(c) \/ AddTableEntry(c) PROVE Goal
  <2>1. call[c] = "handle" /\ \E n : Apply(c, n) BY <1>4 DEF AddTable, AddTableEntry, Handling
  <2>2. QED BY <2>1, ApplyHistory
<1>5. ASSUME NEW c \in Clients,
             \/ Interrupt(c) \/ AcceptCall(c) \/ InvalidCmd(c) \/ Terminate(c) \/ LookUpParent(c)
             \/ ShowAfiObjects(c) \/ SendReply(c)
      PROVE  Goal
  BY <1>1, <1>5 DEF Interrupt, AcceptCall, InvalidCmd, Terminate, LookUpParent, ShowAfiObjects,
                    SendReply, Exit
<1>6. CASE Start \/ RunGrpcServer \/ AfiInit \/ Signal \/ Finished \/ UNCHANGED vars
  BY <1>1, <1>6 DEF Start, RunGrpcServer, AfiInit, Signal, Exit, Finished, vars
<1>7. QED BY <1>2, <1>3, <1>4, <1>5, <1>6 DEF Next, Client, SendCmd

\* A line whose command is past the map is not carried out again.
LEMMA AppliedKept ==
    ASSUME TypeInv, AnswerInv, [Next]_vars, NEW d \in Clients, call[d] \notin {"none", "handle"}
    PROVE  history'[current[d]].applied = history[current[d]].applied
<1>1. current[d] \in 1..Len(history) BY CurrentType
<1>2. ~ \E c \in Clients : current[c] = current[d] /\ call[c] = "handle"
  BY DEF AnswerInv, CallInv
<1>3. QED BY <1>1, <1>2, LineKept

\* Whether it can be set up is settled then.
LEMMA ReadyKept ==
    ASSUME TypeInv, AnswerInv, BeforeInv, [Next]_vars, NEW i \in 1..Len(history),
           history'[i].applied = history[i].applied
    PROVE  Ready(i)' <=> Ready(i)
<1>1. PICK B : B = history[i].before OBVIOUS
<1>2. history'[i].line = history[i].line /\ history'[i].before = B BY <1>1, LineKept
<1>3. B \subseteq Added BY <1>1 DEF BeforeInv
<1>4. \A q : AddedBy(B, q)' = AddedBy(B, q) BY <1>3, AddedByKept
<1>5. Ready(i) <=> \/ history[i].line[1] = "add-table"
                   \/ \E q \in Range(history[i].applied) : LpmName \in AddedBy(B, q)
  BY <1>1 DEF Ready
<1>6. Ready(i)' <=> \/ history'[i].line[1] = "add-table"
                    \/ \E q \in Range(history'[i].applied) : LpmName \in AddedBy(B, q)'
  BY <1>2 DEF Ready, AddedBy
<1>7. QED BY <1>2, <1>4, <1>5, <1>6

\* Nothing is taken out of the target.
LEMMA InstalledGrows == ASSUME [Next]_vars PROVE installed \subseteq installed'
<1> USE DEF clientVars, callVars, agentVars
<1>1. ASSUME NEW c \in Clients, Client(c) \/ AcceptCall(c) PROVE installed \subseteq installed'
  BY <1>1 DEF Client, TypeLine, Interrupt, ReceiveReply, CouldntConnect, AcceptCall
<1>2. ASSUME NEW c \in Clients, SendCmd(c) PROVE installed \subseteq installed'
  BY <1>2 DEF SendCmd, InvalidCmd, Terminate, Exit, AddTable, AddTableEntry, LookUpParent,
              ShowAfiObjects, SendReply
<1>3. CASE Start \/ RunGrpcServer \/ AfiInit \/ Signal \/ Finished \/ UNCHANGED vars
  BY <1>3 DEF Start, RunGrpcServer, AfiInit, Signal, Exit, Finished, vars
<1>4. QED BY <1>1, <1>2, <1>3 DEF Next

\* Where a lookup and a reply of "Added" come from.
LEMMA AddedReplies ==
    ASSUME TypeInv, [Next]_vars, NEW d \in Clients
    PROVE  /\ call'[d] = "lookUp" =>
                \/ call[d] = "lookUp" /\ current'[d] = current[d] /\ starts' = starts
                \/ AddTableEntry(d)
           /\ call'[d] \in {"return", "replied"} /\ reply'[d].kind = "added" =>
                \/ /\ call[d] \in {"return", "replied"} /\ reply[d].kind = "added"
                   /\ current'[d] = current[d]
                \/ AddTable(d) \/ LookUpParent(d)
<1> DEFINE Goal ==
      /\ call'[d] = "lookUp" =>
           \/ call[d] = "lookUp" /\ current'[d] = current[d] /\ starts' = starts
           \/ AddTableEntry(d)
      /\ call'[d] \in {"return", "replied"} /\ reply'[d].kind = "added" =>
           \/ /\ call[d] \in {"return", "replied"} /\ reply[d].kind = "added"
              /\ current'[d] = current[d]
           \/ AddTable(d) \/ LookUpParent(d)
<1>0. /\ call \in [Clients -> {"none", "sent", "handle", "lookUp", "return", "replied", "lost"}]
      /\ reply \in [Clients -> Answers] /\ DOMAIN current = Clients /\ RunInv
  BY DEF TypeInv, TypeOK
<1> USE DEF clientVars, callVars, agentVars
<1>1. ASSUME call'[d] = call[d], reply'[d] = reply[d], current'[d] = current[d], starts' = starts
      PROVE Goal
  BY <1>1
<1>2. ASSUME NEW c \in Clients, NEW l \in Lines, TypeLine(c, l) PROVE Goal
  <2>0. UNCHANGED <<reply, starts>> BY <1>2 DEF TypeLine
  <2>1. CASE RunCli(l) = "send"
    <3>1. current' = [current EXCEPT ![c] = Len(history) + 1] /\ call' = [call EXCEPT ![c] = "sent"]
      BY <1>2, <2>1, SendHistory
    <3>2. CASE d = c BY <1>0, <3>1, <3>2
    <3>3. CASE d # c BY <1>0, <1>1, <2>0, <3>1, <3>3
    <3>4. QED BY <3>2, <3>3
  <2>2. CASE RunCli(l) # "send"
    <3>1. RunCli(l) \in {"local", "exit", "died"} BY <2>2 DEF RunCli
    <3>2. UNCHANGED <<call, current>> BY <1>2, <2>2, <3>1 DEF TypeLine
    <3>3. QED BY <1>1, <2>0, <3>2
  <2>3. QED BY <2>1, <2>2
<1>3. ASSUME NEW c \in Clients, ReceiveReply(c) \/ CouldntConnect(c) PROVE Goal
  <2>1. EndCall(c) /\ UNCHANGED starts BY <1>3 DEF ReceiveReply, CouldntConnect
  <2>2. QED BY <1>0, <1>1, <2>1 DEF EndCall
<1>4. ASSUME NEW c \in Clients, NEW a, Return(c, a), UNCHANGED <<current, starts>>,
             a.kind # "added" \/ AddTable(c) \/ LookUpParent(c)
      PROVE  Goal
  <2>1. CASE d = c
    <3>1. call'[d] = "return" /\ reply'[d] = a BY <1>0, <1>4, <2>1 DEF Return
    <3>2. QED BY <1>4, <2>1, <3>1
  <2>2. CASE d # c BY <1>0, <1>1, <1>4, <2>2 DEF Return
  <2>3. QED BY <2>1, <2>2
<1>5. ASSUME NEW c \in Clients, InvalidCmd(c) PROVE Goal
  <2>1. PICK a : a = Answer("invalid") OBVIOUS
  <2>2. Return(c, a) /\ UNCHANGED <<current, starts>> /\ a.kind # "added"
    BY <1>5, <2>1, AnswerType DEF InvalidCmd
  <2>3. QED BY <1>4, <2>2
<1>6. ASSUME NEW c \in Clients, AddTable(c) \/ LookUpParent(c) PROVE Goal
  <2>1. Return(c, Answer("added")) /\ UNCHANGED <<current, starts>>
    BY <1>6 DEF AddTable, LookUpParent, Apply
  <2>2. QED BY <1>4, <1>6, <2>1
<1>7. ASSUME NEW c \in Clients, AddTableEntry(c) PROVE Goal
  <2>1. call' = [call EXCEPT ![c] = "lookUp"] /\ UNCHANGED <<reply, current, starts>>
    BY <1>7 DEF AddTableEntry, Apply
  <2>2. CASE d = c BY <1>0, <1>7, <2>1, <2>2
  <2>3. CASE d # c BY <1>0, <1>1, <2>1, <2>3
  <2>4. QED BY <2>2, <2>3
<1>8. ASSUME Exit PROVE Goal
  <2>1. \A c \in Clients : /\ call'[c] = IF c \in Served THEN "lost" ELSE call[c]
                           /\ reply'[c] = IF c \in Served THEN Answer("none") ELSE reply[c]
    BY <1>8 DEF Exit
  <2>2. CASE d \in Served BY <2>1, <2>2
  <2>3. CASE d \notin Served BY <1>1, <1>8, <2>1, <2>3 DEF Exit
  <2>4. QED BY <2>2, <2>3
<1>9. ASSUME NEW c \in Clients, ShowAfiObjects(c) PROVE Goal
  <2>1. CASE \E n \in Names : objects[n] = "null" BY <1>8, <1>9, <2>1 DEF ShowAfiObjects
  <2>2. CASE ~(\E n \in Names : objects[n] = "null")
    <3>1. PICK a : a = [kind |-> "shown", names |-> ShownNames, start |-> starts] OBVIOUS
    <3>2. Return(c, a) /\ UNCHANGED <<current, starts>> BY <1>9, <2>2, <3>1 DEF ShowAfiObjects
    <3>3. a.kind # "added" BY <3>1
    <3>4. QED BY <1>4, <3>2, <3>3
  <2>3. QED BY <2>1, <2>2
<1>10. ASSUME NEW c \in Clients, AcceptCall(c) PROVE Goal BY <1>0, <1>1, <1>10 DEF AcceptCall
<1>11. ASSUME NEW c \in Clients, SendReply(c) PROVE Goal BY <1>0, <1>1, <1>11 DEF SendReply
<1>12. ASSUME NEW c \in Clients, Interrupt(c) PROVE Goal BY <1>1, <1>12 DEF Interrupt
<1>13. ASSUME NEW c \in Clients, Terminate(c) PROVE Goal BY <1>8, <1>13 DEF Terminate
<1>14. CASE Start
  <2>1. ~up /\ UNCHANGED <<call, reply, current>> BY <1>14 DEF Start
  <2>2. call[d] # "lookUp" BY <1>0, <2>1 DEF RunInv
  <2>3. QED BY <2>1, <2>2
<1>15. CASE RunGrpcServer \/ AfiInit \/ Signal \/ Finished \/ UNCHANGED vars
  BY <1>1, <1>8, <1>15 DEF RunGrpcServer, AfiInit, Signal, Finished, vars
<1>16. QED
  BY <1>2, <1>3, <1>5, <1>6, <1>7, <1>9, <1>10, <1>11, <1>12, <1>13, <1>14, <1>15
  DEF Next, Client, SendCmd

\* The inductive step for the target.
LEMMA InstallStep ==
    ASSUME TypeInv, AnswerInv, MapInv, BeforeInv, InstallInv, [Next]_vars
    PROVE  InstallInv'
<1>0. LookUpInv /\ ReplyInstalled /\ AnswerInstalled /\ RunInv /\ StageInv /\ InMap
  BY DEF InstallInv, TypeInv, AnswerInv, MapInv
<1>1. installed \subseteq installed' BY InstalledGrows
<1>2. LookUpInv'
  <2> SUFFICES ASSUME NEW d \in Clients, call'[d] = "lookUp"
               PROVE  /\ Range(history'[current'[d]].applied) = {starts'}
                      /\ history'[current'[d]].line[1] # "add-table"
    BY DEF LookUpInv
  <2>1. CASE call[d] = "lookUp" /\ current'[d] = current[d] /\ starts' = starts
    <3>1. current[d] \in 1..Len(history) BY <2>1, CurrentType
    <3>2. /\ history'[current[d]].applied = history[current[d]].applied
          /\ history'[current[d]].line = history[current[d]].line
      BY <2>1, <3>1, AppliedKept, LineKept
    <3>3. QED BY <1>0, <2>1, <3>2 DEF LookUpInv
  <2>2. CASE AddTableEntry(d)
    <3>1. Handling(d, "entry") /\ Apply(d, EntryName) BY <2>2 DEF AddTableEntry
    <3>2. call[d] = "handle" /\ LineOf(d)[1] = "add-table-entry"
      BY <3>1, HandlingLine, CommandLine
    <3>3. PICK k \in 1..Len(history) : k = current[d] BY <3>2, CurrentType
    <3>4. PICK s : s = history[k].applied OBVIOUS
    <3>5. s \in Seq(Nat) /\ Len(s) = 0
      BY <1>0, <3>2, <3>3, <3>4, HistoryRecord DEF TypeInv, StageInv, StageOK, Times
    <3>6. s = <<>> BY <3>5, EmptySeq
    <3>7. history'[k].applied = Append(s, starts) /\ history'[k].line = history[k].line
      <4>1. call[d] # "none" /\ \E n : Apply(d, n) BY <3>1, <3>2
      <4>2. QED BY <3>3, <3>4, <4>1, ApplyHistory
    <3>8. history'[k].applied = <<starts>> BY <3>6, <3>7
    <3>9. Range(<<starts>>) = {starts} BY DEF Range
    <3>10. current'[d] = k /\ starts' = starts BY <3>1, <3>3 DEF Apply
    <3>11. QED BY <3>2, <3>3, <3>7, <3>8, <3>9, <3>10 DEF LineOf
  <2>3. QED BY <2>1, <2>2, AddedReplies
<1>3. ASSUME NEW d \in Clients, call[d] \in {"return", "replied"}, reply[d].kind = "added",
             NEW k, k = current[d], Ready(k)'
      PROVE  k \in installed'
  <2>1. k \in 1..Len(history) BY <1>3, CurrentType
  <2>2. history'[k].applied = history[k].applied BY <1>3, <2>1, AppliedKept
  <2>3. Ready(k)' <=> Ready(k) BY <2>1, <2>2, ReadyKept
  <2>4. QED BY <1>0, <1>1, <1>3, <2>1, <2>3 DEF ReplyInstalled
<1>4. ReplyInstalled'
  <2> SUFFICES ASSUME NEW d \in Clients, call'[d] \in {"return", "replied"},
                      reply'[d].kind = "added", NEW k, k = current'[d], Ready(k)'
               PROVE  k \in installed'
    BY DEF ReplyInstalled, Ready, AddedBy
  <2>1. CASE call[d] \in {"return", "replied"} /\ reply[d].kind = "added" /\ current'[d] = current[d]
    BY <1>3, <2>1
  <2>2. CASE AddTable(d) BY <2>2 DEF AddTable, Apply
  <2>3. CASE LookUpParent(d)
    <3>1. /\ call[d] = "lookUp" /\ UNCHANGED <<history, current>>
          /\ installed' = IF objects[LpmName] = "object" THEN installed \cup {current[d]} ELSE installed
      BY <2>3 DEF LookUpParent, clientVars
    <3>2. up /\ k = current[d] /\ k \in 1..Len(history) BY <1>0, <3>1, CurrentType DEF RunInv
    <3>3. Ready(k) BY <3>1 DEF Ready, AddedBy
    <3>4. Range(history[k].applied) = {starts} /\ history[k].line[1] # "add-table"
      BY <1>0, <3>1, <3>2 DEF LookUpInv
    <3>5. LpmName \in AddedBy(history[k].before, starts) BY <3>3, <3>4 DEF Ready
    <3>6. PICK j \in history[k].before :
              starts \in Range(history[j].applied) /\ NameOf(history[j].line) = LpmName
      BY <3>5 DEF AddedBy
    <3>7. j \in 1..Len(history) BY <3>2, <3>6 DEF BeforeInv, Added
    <3>8. objects[LpmName] = "object" BY <1>0, <3>2, <3>6, <3>7 DEF InMap
    <3>9. QED BY <3>1, <3>2, <3>8
  <2>4. QED BY <2>1, <2>2, <2>3, AddedReplies
<1>5. AnswerInstalled'
  <2> SUFFICES ASSUME NEW i \in 1..Len(history'), history'[i].answer.kind = "added", Ready(i)'
               PROVE  i \in installed'
    BY DEF AnswerInstalled, Ready, AddedBy
  <2>1. CASE i \in 1..Len(history) /\ history'[i].answer = history[i].answer
    <3>1. history[i].answer.kind = "added" BY <2>1
    <3>2. history'[i].applied = history[i].applied BY <2>1, <3>1, AnsweredKept
    <3>3. Ready(i)' <=> Ready(i) BY <2>1, <3>2, ReadyKept
    <3>4. QED BY <1>0, <1>1, <2>1, <3>1, <3>3 DEF AnswerInstalled
  <2>2. ASSUME NEW c \in Clients, call[c] = "replied", i = current[c], history'[i].answer = reply[c]
        PROVE  i \in installed'
    <3>1. reply[c].kind = "added" BY <2>2
    <3>2. QED BY <1>3, <2>2, <3>1
  <2>3. QED BY <2>1, <2>2, PrintedAnswers
<1>6. QED BY <1>2, <1>4, <1>5 DEF InstallInv

LEMMA InstallInvariant == Spec => []InstallInv
<1>1. Init => InstallInv
  <2> SUFFICES ASSUME Init PROVE InstallInv OBVIOUS
  <2>1. history = <<>> BY DEF Init
  <2>2. Len(history) = 0 BY <2>1
  <2>3. QED BY <2>2 DEF Init, InstallInv, LookUpInv, ReplyInstalled, AnswerInstalled
<1>2. ShowInv => BeforeInv BY DEF ShowInv
<1>3. TypeInv /\ AnswerInv /\ MapInv /\ BeforeInv /\ InstallInv /\ [Next]_vars => InstallInv'
  BY InstallStep
<1>4. QED BY <1>1, <1>2, <1>3, AnswerInvariant, MapInvariant, ShowInvariant, PTL DEF Spec

\* A line is carried out at most once, and never when the client printed that it
\* is invalid, objects, or the details of an error.  When the client printed
\* "Added" it was carried out exactly once, and what it adds is set up in the
\* target if it is a table, or an entry whose table had been acknowledged when
\* the line was typed: whatever agents crash and restart and whatever clients are
\* interrupted, for any number of each.
THEOREM AnswersTrue == Spec => []AnsweredTruthfully
<1>1. AnswerInv /\ InstallInv => AnsweredTruthfully
  BY DEF AnswerInv, TruthInv, Truthful, Times, InstallInv, AnswerInstalled, AnsweredTruthfully
<1>2. QED BY <1>1, AnswerInvariant, InstallInvariant, PTL
=============================================================================
