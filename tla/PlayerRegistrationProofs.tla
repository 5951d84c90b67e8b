---------------------- MODULE PlayerRegistrationProofs ----------------------
(***************************************************************************)
(* Proofs about PlayerRegistration.                                         *)
(***************************************************************************)
EXTENDS PlayerRegistration, FiniteSetTheorems, SequenceTheorems, TLAPS

-----------------------------------------------------------------------------
(* Sequences of messages.                                                   *)

\* What the IPC queues are built with stays a sequence of messages.
LEMMA QueueType ==
    ASSUME NEW S, NEW q \in Seq(S)
    PROVE  /\ \A m \in S : Append(q, m) \in Seq(S)
           /\ q # <<>> => Head(q) \in S /\ Tail(q) \in Seq(S)
           /\ \A r \in Seq(S) : q \o r \in Seq(S)
OBVIOUS

\* A PLAYER_LEFT for each connection.
LEMMA LeftsType ==
    ASSUME NEW n \in Nat
    PROVE  [k \in 1 .. n |-> "LEFT"] \in Seq(ToCtlMsg)
BY DEF ToCtlMsg

-----------------------------------------------------------------------------
(* Type correctness, one lemma per group of operators.                      *)

\* What Sent returns is a queue for every instance.
LEMMA SentType ==
    ASSUME TypeOK, NEW i, NEW m \in ToDllMsg
    PROVE  Sent(i, m) \in [Instance -> Seq(ToDllMsg)]
<1>1. CASE i \in up
  <2>1. toDll[i] \in Seq(ToDllMsg) /\ i \in Instance BY <1>1 DEF TypeOK
  <2>2. Append(toDll[i], m) \in Seq(ToDllMsg) BY <2>1, QueueType
  <2>. QED BY <1>1, <2>1, <2>2 DEF TypeOK, Sent
<1>2. CASE i \notin up BY <1>2 DEF TypeOK, Sent
<1>. QED BY <1>1, <1>2

AckType ==
    /\ token' \in Token
    /\ regs' \in Seq([inst : Instance, via : Via])
    /\ Len(regs') <= MaxRegs
    /\ ack' \in 0 .. Len(regs')
    /\ ackTimer' \in 0 .. Len(regs')
    /\ timers' \subseteq 1 .. Len(regs')
    /\ toDll' \in [Instance -> Seq(ToDllMsg)]

\* RegisterWithToken keeps the registrations, timers and queues well typed.
LEMMA RegisterWithTokenType ==
    ASSUME TypeOK, NEW i \in Instance, NEW via \in Via, NEW T \in SUBSET timers,
           RegisterWithToken(i, via, T)
    PROVE  AckType
<1>1. Len(regs) \in Nat /\ Len(regs) + 1 \in Token /\ Len(regs) + 1 # 0
  BY RegistrationAssumption DEF TypeOK, RegisterWithToken, Token
<1>2. Message("REGISTER", Len(regs) + 1) \in ToDllMsg
  BY <1>1 DEF Message, ToDllMsg
<1>3. toDll' \in [Instance -> Seq(ToDllMsg)]
  BY <1>2, SentType DEF RegisterWithToken
<1>4. /\ regs' \in Seq([inst : Instance, via : Via])
      /\ Len(regs') = Len(regs) + 1
  BY DEF RegisterWithToken, TypeOK
<1>5. /\ ack' \in 0 .. Len(regs')
      /\ ackTimer' \in 0 .. Len(regs')
      /\ timers' \subseteq 1 .. Len(regs')
  <2>1. T \subseteq 1 .. Len(regs) /\ timers' \subseteq T \cup {Len(regs) + 1}
    BY <1>1 DEF RegisterWithToken, TypeOK, Arm
  <2>2. ack' \in {0, Len(regs) + 1} /\ ackTimer' \in {0, Len(regs) + 1}
    BY DEF RegisterWithToken, Arm
  <2>3. 1 .. Len(regs) \subseteq 1 .. Len(regs) + 1 BY <1>1
  <2>. QED BY <1>1, <1>4, <2>1, <2>2, <2>3
<1>6. token' \in Token /\ Len(regs') <= MaxRegs
  BY <1>1, <1>4, RegistrationAssumption DEF RegisterWithToken, TypeOK
<1>. QED BY <1>3, <1>4, <1>5, <1>6 DEF AckType

\* The same of HomeOrPoll, which also assigns the session to a home or to a.
LEMMA HomeOrPollType ==
    ASSUME TypeOK, NEW a \in Instance \cup {None}, NEW T \in SUBSET timers,
           NEW callback \in 0 .. Len(regs), NEW timer \in 0 .. Len(regs),
           HomeOrPoll(a, T, callback, timer)
    PROVE  AckType /\ assigned' \in Instance \cup {None} /\ polls' \in 0 .. MaxPolls
<1>1. CASE \E h \in ReadyHomes :
               assigned' = h /\ RegisterWithToken(h, "home", T) /\ UNCHANGED polls
  <2>1. PICK h \in ReadyHomes :
               assigned' = h /\ RegisterWithToken(h, "home", T) /\ UNCHANGED polls
    BY <1>1
  <2>2. h \in Instance /\ "home" \in Via BY <2>1 DEF ReadyHomes, Instance, Via
  <2>3. AckType BY <2>1, <2>2, RegisterWithTokenType
  <2>. QED BY <2>1, <2>2, <2>3 DEF TypeOK
<1>2. CASE /\ ReadyHomes = {} /\ polls < MaxPolls /\ polls' = polls + 1 /\ assigned' = a
           /\ ack' = callback /\ ackTimer' = timer /\ timers' = T
           /\ UNCHANGED <<token, regs, toDll>>
  <2>1. AckType BY <1>2 DEF AckType, TypeOK
  <2>2. polls' \in 0 .. MaxPolls BY <1>2, RegistrationAssumption DEF TypeOK
  <2>. QED BY <1>2, <2>1, <2>2
<1>. QED BY <1>1, <1>2 DEF HomeOrPoll

\* The updates of a connection are connections.
LEMMA ConnectionType ==
    ASSUME TypeOK, NEW i \in Instance, NEW c \in Conn
    PROVE  /\ conns[i][c] \in Connection
           /\ [conns[i][c] EXCEPT !.closed = TRUE] \in Connection
           /\ [conns[i][c] EXCEPT !.st = "hello"] \in Connection
           /\ \A t \in Token : [conns[i][c] EXCEPT !.st = "joined", !.token = t] \in Connection
<1>1. conns[i][c] \in Connection BY DEF TypeOK
<1>. QED BY <1>1 DEF Connection

\* A queue of messages to the DLL with the first one taken off.
LEMMA ReceiveType ==
    ASSUME TypeOK, NEW i \in Instance, NEW type, Receive(i, type)
    PROVE  toDll' \in [Instance -> Seq(ToDllMsg)] /\ Head(toDll[i]) \in ToDllMsg
<1>1. toDll[i] \in Seq(ToDllMsg) BY DEF TypeOK
<1>2. Tail(toDll[i]) \in Seq(ToDllMsg) /\ Head(toDll[i]) \in ToDllMsg
  BY <1>1, QueueType DEF Receive
<1>. QED BY <1>2 DEF Receive, TypeOK

\* A queue of messages to the control server, shorter or longer by one.
LEMMA ToControlType ==
    ASSUME TypeOK, NEW i \in Instance
    PROVE  /\ toControl[i] # <<>> /\ Deliver(i) => toControl' \in [Instance -> Seq(ToCtlMsg)]
           /\ [toControl EXCEPT ![i] = Append(@, "ACK")] \in [Instance -> Seq(ToCtlMsg)]
<1>1. toControl[i] \in Seq(ToCtlMsg) /\ "ACK" \in ToCtlMsg BY DEF TypeOK, ToCtlMsg
<1>2. Append(toControl[i], "ACK") \in Seq(ToCtlMsg) BY <1>1, QueueType
<1>3. toControl[i] # <<>> => Tail(toControl[i]) \in Seq(ToCtlMsg) BY <1>1, QueueType
<1>. QED BY <1>2, <1>3 DEF Deliver, TypeOK

\* Cleanup keeps connections, registry and queue well typed.
LEMMA CleanupType ==
    ASSUME TypeOK, NEW i \in Instance, NEW S \in SUBSET Conn, Cleanup(i, S)
    PROVE  /\ conns' \in [Instance -> [Conn -> Connection]]
           /\ toControl' \in [Instance -> Seq(ToCtlMsg)]
           /\ registry' \in [Instance -> Entry]
<1>1. Free \in Connection
  BY RegistrationAssumption DEF Free, Connection, Token
<1>2. conns' \in [Instance -> [Conn -> Connection]]
  BY <1>1 DEF Cleanup, TypeOK
<1>3. Cardinality(S) \in Nat
  BY RegistrationAssumption, FS_Subset, FS_CardinalityType
<1>4. toControl[i] \o [k \in 1 .. Cardinality(S) |-> "LEFT"] \in Seq(ToCtlMsg)
  <2>1. toControl[i] \in Seq(ToCtlMsg) BY DEF TypeOK
  <2>2. [k \in 1 .. Cardinality(S) |-> "LEFT"] \in Seq(ToCtlMsg) BY <1>3, LeftsType
  <2>. QED BY <2>1, <2>2, QueueType
<1>5. toControl' \in [Instance -> Seq(ToCtlMsg)]
  BY <1>4 DEF Cleanup, TypeOK
<1>6. \A g : Unregistered(i, g) \in [Instance -> Entry]
  <2>. SUFFICES ASSUME NEW g PROVE Unregistered(i, g) \in [Instance -> Entry]
    OBVIOUS
  <2>. DEFINE q == [registry EXCEPT ![i].held = FALSE]
              r == [q EXCEPT ![i].token = 0]
  <2>1. q \in [Instance -> Entry] BY DEF TypeOK, Entry
  <2>2. 0 \in Token BY RegistrationAssumption DEF Token
  <2>. HIDE DEF q
  <2>3. r \in [Instance -> Entry] BY <2>1, <2>2 DEF Entry
  <2>4. Unregistered(i, g) \in {r, registry} BY DEF Unregistered, q
  <2>. QED BY <2>3, <2>4 DEF TypeOK
<1>7. registry' \in [Instance -> Entry]
  BY <1>6 DEF Cleanup, TypeOK
<1>. QED BY <1>2, <1>5, <1>7

\* The initial states are well typed.
LEMMA InitType == Init => TypeOK
<1>. SUFFICES ASSUME Init PROVE TypeOK
  OBVIOUS
<1>1. Free \in Connection
  BY RegistrationAssumption DEF Free, Connection, Token
<1>2. [gen |-> 0, token |-> 0, held |-> FALSE] \in Entry
  BY RegistrationAssumption DEF Entry, Token
<1>3. Len(regs) = 0 /\ regs \in Seq([inst : Instance, via : Via]) BY DEF Init
<1>4. /\ toDll \in [Instance -> Seq(ToDllMsg)] /\ toControl \in [Instance -> Seq(ToCtlMsg)]
  BY DEF Init
<1>5. /\ row \in [Instance -> {"STARTING", "READY", "STOPPED"}]
      /\ up \subseteq Instance /\ roster \subseteq Instance
  BY DEF Init
<1>6. /\ token \in Token /\ polls \in 0 .. MaxPolls /\ Len(regs) <= MaxRegs
      /\ ack \in 0 .. Len(regs) /\ ackTimer \in 0 .. Len(regs) /\ timers \subseteq 1 .. Len(regs)
  BY <1>3, RegistrationAssumption DEF Init, Token
<1>7. /\ conns \in [Instance -> [Conn -> Connection]]
      /\ registry \in [Instance -> Entry]
  BY <1>1, <1>2 DEF Init
<1>. QED BY <1>3, <1>4, <1>5, <1>6, <1>7 DEF Init, TypeOK

\* Every step keeps the state well typed.
LEMMA NextType == TypeOK /\ [Next]_vars => TypeOK'
<1>. SUFFICES ASSUME TypeOK, [Next]_vars PROVE TypeOK'
  OBVIOUS
<1>. USE DEF rowVars, sessionVars, ackVars, dllVars, clientVars
<1>0. /\ None \in Instance \cup {None} /\ None \in Mission \cup {None} /\ 0 \in Token
      /\ Home \subseteq Instance /\ Mission \subseteq Instance
      /\ Len(regs) \in Nat /\ 0 \in 0 .. Len(regs) /\ 0 \in 0 .. MaxPolls
      /\ Len(regs) <= MaxRegs
  BY RegistrationAssumption DEF Token, Instance, TypeOK
<1>1. CASE SelectCharacter
  <2>1. AckType /\ assigned' \in Instance \cup {None} /\ polls' \in 0 .. MaxPolls
    BY <1>1, HomeOrPollType DEF SelectCharacter, TypeOK
  <2>. QED BY <1>1, <2>1 DEF SelectCharacter, TypeOK, AckType
<1>2. CASE HomePoll
  <2>1. polls' \in 0 .. MaxPolls
    <3>1. polls > 0 /\ polls' = polls - 1 BY <1>2 DEF HomePoll
    <3>2. polls \in 0 .. MaxPolls BY DEF TypeOK
    <3>. QED BY <3>1, <3>2, RegistrationAssumption
  <2>2. CASE UNCHANGED <<assigned, token, ackVars, toDll>>
    BY <1>2, <2>1, <2>2 DEF HomePoll, TypeOK
  <2>3. CASE \E h \in ReadyHomes : assigned' = h /\ RegisterWithToken(h, "home", timers)
    <3>1. AckType /\ assigned' \in Instance
      BY <2>3, <1>0, RegisterWithTokenType DEF ReadyHomes, Via
    <3>. QED BY <1>2, <2>1, <3>1 DEF HomePoll, TypeOK, AckType
  <2>. QED BY <1>2, <2>2, <2>3 DEF HomePoll
<1>3. CASE MatchAccept
  <2>1. CASE row[invited] = "READY" /\ invited \in up
    <3>1. Message("REGISTER", 0) \in ToDllMsg BY <1>0 DEF Message, ToDllMsg
    <3>2. toDll' \in [Instance -> Seq(ToDllMsg)]
      BY <1>3, <2>1, <3>1, SentType DEF MatchAccept
    <3>3. /\ invited \in Instance /\ "match" \in Via
      BY <2>1 DEF TypeOK, Via
    <3>4. /\ regs' = Append(regs, [inst |-> invited, via |-> "match"])
          /\ Len(regs) < MaxRegs /\ Arm(Len(regs) + 1, timers)
      BY <1>3, <2>1 DEF MatchAccept
    <3>5. /\ regs' \in Seq([inst : Instance, via : Via]) /\ Len(regs') = Len(regs) + 1
      BY <3>3, <3>4 DEF TypeOK
    <3>6. /\ ack' \in 0 .. Len(regs') /\ ackTimer' \in 0 .. Len(regs')
          /\ timers' \subseteq 1 .. Len(regs')
      <4>1. /\ timers' \subseteq timers \cup {Len(regs) + 1}
            /\ ack' = Len(regs) + 1 /\ ackTimer' = Len(regs) + 1
        BY <3>4 DEF Arm
      <4>2. timers \subseteq 1 .. Len(regs) BY DEF TypeOK
      <4>3. 1 .. Len(regs) \subseteq 1 .. Len(regs) + 1 BY <1>0
      <4>. QED BY <4>1, <4>2, <4>3, <3>5, <1>0
    <3>7. UNCHANGED <<rowVars, roster, live, assigned, token, spectating, polls,
                     toControl, dllVars, clientVars, invited>>
      BY <1>3, <2>1 DEF MatchAccept
    <3>. QED BY SMTT(60), <3>2, <3>4, <3>5, <3>6, <3>7, <1>0, RegistrationAssumption DEF TypeOK
  <2>2. CASE ~(row[invited] = "READY" /\ invited \in up)
    BY <1>3, <2>2, <1>0 DEF MatchAccept, TypeOK
  <2>. QED BY <2>1, <2>2
<1>4. ASSUME NEW m \in Mission, Invite(m) PROVE TypeOK'
  BY <1>4 DEF Invite, TypeOK
<1>5. ASSUME NEW m \in Mission, Spectate(m) PROVE TypeOK'
  <2>1. AckType BY <1>5, <1>0, RegisterWithTokenType DEF Spectate, Via
  <2>. QED BY <1>5, <2>1 DEF Spectate, TypeOK, AckType
<1>6. ASSUME NEW n \in RegNo, AckTimeout(n) PROVE TypeOK'
  <2>1. timers \ {n} \in SUBSET timers OBVIOUS
  <2>2. AckType /\ assigned' \in Instance \cup {None} /\ polls' \in 0 .. MaxPolls
    <3>1. CASE regs[n].via = "target"
      <4>1. HomeOrPoll(assigned, timers \ {n}, 0, ackTimer) BY <1>6, <3>1 DEF AckTimeout
      <4>2. assigned \in Instance \cup {None} /\ ackTimer \in 0 .. Len(regs) BY DEF TypeOK
      <4>. QED BY <4>1, <4>2, <2>1, <1>0, HomeOrPollType
    <3>2. CASE regs[n].via # "target"
      BY <1>6, <3>2, <1>0 DEF AckTimeout, TypeOK, AckType
    <3>. QED BY <3>1, <3>2
  <2>. QED BY <1>6, <2>2, <1>0 DEF AckTimeout, TypeOK, AckType
<1>7. CASE LeaveGame
  <2>1. Message("LEAVE", token) \in ToDllMsg BY DEF Message, ToDllMsg, TypeOK
  <2>2. toDll' \in [Instance -> Seq(ToDllMsg)]
    BY <1>7, <2>1, SentType DEF LeaveGame, TypeOK
  <2>. QED BY <1>7, <2>2, <1>0 DEF LeaveGame, TypeOK
<1>8. CASE ChangeInstance
  <2>1. CASE assigned \in Home
    BY <1>8, <2>1, <1>0 DEF ChangeInstance, TypeOK
  <2>2. CASE assigned \notin Home
    <3>. DEFINE T == timers \ {ackTimer}
                callback == IF ackTimer = 0 THEN ack ELSE 0
    <3>1. T \in SUBSET timers /\ callback \in 0 .. Len(regs) BY <1>0 DEF TypeOK
    <3>2. AckType /\ assigned' \in Instance \cup {None} /\ polls' \in 0 .. MaxPolls
      <4>1. CASE HomeOrPoll(None, T, callback, 0)
        BY <4>1, <3>1, <1>0, HomeOrPollType
      <4>2. CASE /\ \E s \in Mission \ {assigned} : RegisterWithToken(s, "target", T)
                 /\ assigned' = None
                 /\ UNCHANGED polls
        <5>1. AckType BY <4>2, <3>1, <1>0, RegisterWithTokenType DEF Via
        <5>. QED BY <4>2, <5>1, <1>0 DEF TypeOK
      <4>. QED BY <1>8, <2>2, <4>1, <4>2 DEF ChangeInstance
    <3>3. /\ roster' \subseteq Instance /\ invited' \in Mission \cup {None}
          /\ UNCHANGED <<rowVars, live, spectating, toControl, dllVars, clientVars>>
      BY <1>8, <2>2, <1>0 DEF ChangeInstance, TypeOK
    <3>. QED BY <3>2, <3>3 DEF TypeOK, AckType
  <2>. QED BY <2>1, <2>2
<1>9. CASE Unspectate
  <2>. DEFINE close == IF assigned \in up THEN <<Message("CLOSE", token)>> ELSE <<>>
  <2>0. Message("CLOSE", token) \in ToDllMsg BY DEF Message, ToDllMsg, TypeOK
  <2>1. close \in Seq(ToDllMsg) BY <2>0
  <2>2. /\ spectating' \in BOOLEAN
        /\ UNCHANGED <<rowVars, roster, live, invited, toControl, dllVars, clientVars>>
    BY <1>9 DEF Unspectate
  <2>. HIDE DEF close
  <2>3. CASE ReadyHomes = {}
    <3>1. /\ polls < MaxPolls /\ polls' = polls + 1 /\ assigned' = None
          /\ token' = IF assigned = None THEN token ELSE 0
          /\ toDll' = [j \in Instance |-> IF j = assigned THEN toDll[j] \o close ELSE toDll[j]]
          /\ UNCHANGED ackVars
      BY <1>9, <2>3 DEF Unspectate, close
    <3>2. toDll' \in [Instance -> Seq(ToDllMsg)]
      <4>1. \A j \in Instance : toDll[j] \in Seq(ToDllMsg) /\ toDll[j] \o close \in Seq(ToDllMsg)
        BY <2>1, QueueType DEF TypeOK
      <4>. QED BY <3>1, <4>1
    <3>. QED BY <2>2, <3>1, <3>2, <1>0, RegistrationAssumption DEF TypeOK
  <2>4. ASSUME ReadyHomes # {} PROVE TypeOK'
    <3>. DEFINE reg(h) == IF h \in up THEN <<Message("REGISTER", Len(regs) + 1)>> ELSE <<>>
    <3>1. PICK h \in ReadyHomes :
             /\ Len(regs) < MaxRegs
             /\ assigned' = h
             /\ regs' = Append(regs, [inst |-> h, via |-> "home"])
             /\ token' = Len(regs) + 1
             /\ toDll' = [j \in Instance |->
                     toDll[j]
                     \o (IF j = assigned THEN close ELSE <<>>)
                     \o (IF j = h /\ h \in up
                         THEN <<Message("REGISTER", Len(regs) + 1)>> ELSE <<>>)]
             /\ IF h \in up
                THEN Arm(Len(regs) + 1, timers)
                ELSE ack' = 0 /\ ackTimer' = 0 /\ UNCHANGED timers
             /\ UNCHANGED polls
      BY <1>9, <2>4 DEF Unspectate, close
    <3>2. h \in Instance /\ "home" \in Via /\ Len(regs) + 1 \in Token
      BY <3>1, <1>0, RegistrationAssumption DEF ReadyHomes, Via, Token
    <3>3. regs' \in Seq([inst : Instance, via : Via]) /\ Len(regs') = Len(regs) + 1
      BY <3>1, <3>2 DEF TypeOK
    <3>4. /\ ack' \in 0 .. Len(regs') /\ ackTimer' \in 0 .. Len(regs')
          /\ timers' \subseteq 1 .. Len(regs')
      <4>1. /\ timers' \subseteq timers \cup {Len(regs) + 1}
            /\ ack' \in {0, Len(regs) + 1} /\ ackTimer' \in {0, Len(regs) + 1}
        BY <3>1 DEF Arm
      <4>2. timers \subseteq 1 .. Len(regs) BY DEF TypeOK
      <4>3. 1 .. Len(regs) \subseteq 1 .. Len(regs) + 1 BY <1>0
      <4>. QED BY <4>1, <4>2, <4>3, <3>3, <1>0
    <3>5. toDll' \in [Instance -> Seq(ToDllMsg)]
      <4>1. /\ <<Message("REGISTER", Len(regs) + 1)>> \in Seq(ToDllMsg)
            /\ <<>> \in Seq(ToDllMsg)
        BY <3>2 DEF Message, ToDllMsg
      <4>2. \A j \in Instance : toDll[j] \o (IF j = assigned THEN close ELSE <<>>) \in Seq(ToDllMsg)
        BY <2>1, <4>1, QueueType DEF TypeOK
      <4>3. \A j \in Instance :
               toDll[j] \o (IF j = assigned THEN close ELSE <<>>)
               \o (IF j = h /\ h \in up
                   THEN <<Message("REGISTER", Len(regs) + 1)>> ELSE <<>>) \in Seq(ToDllMsg)
        BY <4>1, <4>2, QueueType
      <4>. QED BY <3>1, <4>3
    <3>6. /\ Len(regs') <= MaxRegs /\ polls' \in 0 .. MaxPolls
          /\ assigned' \in Instance \cup {None} /\ token' \in Token
      <4>1. polls \in 0 .. MaxPolls BY DEF TypeOK
      <4>. QED BY <3>1, <3>2, <3>3, <4>1, <1>0, RegistrationAssumption
    <3>. QED BY <2>2, <3>3, <3>4, <3>5, <3>6 DEF TypeOK
  <2>. QED BY <2>3, <2>4
<1>10. CASE SocketDisconnect
  <2>1. Message("CLOSE", token) \in ToDllMsg BY DEF Message, ToDllMsg, TypeOK
  <2>2. toDll' \in [Instance -> Seq(ToDllMsg)]
    BY <1>10, <2>1, SentType DEF SocketDisconnect, TypeOK
  <2>3. Len(regs') = 0 /\ regs' \in Seq([inst : Instance, via : Via])
    BY <1>10 DEF SocketDisconnect
  <2>4. /\ Len(regs') <= MaxRegs /\ ack' \in 0 .. Len(regs') /\ ackTimer' \in 0 .. Len(regs')
        /\ timers' \subseteq 1 .. Len(regs')
    BY <1>10, <2>3, RegistrationAssumption DEF SocketDisconnect
  <2>. QED BY <1>10, <2>2, <2>3, <2>4, <1>0 DEF SocketDisconnect, TypeOK
<1>11. CASE GhostSweep
  <2>1. Message("CLOSE", 0) \in ToDllMsg BY <1>0 DEF Message, ToDllMsg
  <2>2. \A i \in Instance : Append(toDll[i], Message("CLOSE", 0)) \in Seq(ToDllMsg)
    BY <2>1, QueueType DEF TypeOK
  <2>3. toDll' \in [Instance -> Seq(ToDllMsg)] BY <1>11, <2>2 DEF GhostSweep, TypeOK
  <2>. QED BY <1>11, <2>3 DEF GhostSweep, TypeOK
<1>12. ASSUME NEW i \in Instance, RegisterAck(i) PROVE TypeOK'
  <2>1. toControl' \in [Instance -> Seq(ToCtlMsg)]
    BY <1>12, ToControlType DEF RegisterAck
  <2>2. UNCHANGED <<rowVars, live, dllVars, at>> BY <1>12 DEF RegisterAck
  <2>3. CASE ack = 0
    <3>1. UNCHANGED <<roster, assigned, token, invited, spectating, ackVars, polls, toDll, dest>>
      BY <1>12, <2>3 DEF RegisterAck
    <3>. QED BY <2>1, <2>2, <3>1 DEF TypeOK
  <2>4. CASE ack # 0
    <3>. DEFINE j == regs[ack].inst
                T == timers \ {ack}
    <3>1. Registered(ack) BY <1>12, <2>4 DEF RegisterAck
    <3>2. j \in Instance /\ regs[ack].via \in Via /\ T \in SUBSET timers
      <4>1. ack \in 0 .. Len(regs) /\ regs \in Seq([inst : Instance, via : Via]) BY DEF TypeOK
      <4>2. ack \in 1 .. Len(regs) BY <4>1, <2>4, <1>0
      <4>3. regs[ack] \in [inst : Instance, via : Via] BY <4>1, <4>2, ElementOfSeq
      <4>. QED BY <4>3
    <3>3. CASE regs[ack].via = "target" /\ row[j] # "READY"
      <4>1. HomeOrPoll(None, T, 0, ackTimer)
        BY <3>1, <3>3 DEF Registered
      <4>2. AckType /\ assigned' \in Instance \cup {None} /\ polls' \in 0 .. MaxPolls
        BY <4>1, <3>2, <1>0, HomeOrPollType DEF TypeOK
      <4>3. roster' = roster \cup {j} /\ UNCHANGED <<invited, spectating, dest>>
        BY <3>1, <3>3 DEF Registered
      <4>. QED BY <2>1, <2>2, <3>2, <4>2, <4>3 DEF TypeOK, AckType
    <3>4. ASSUME ~(regs[ack].via = "target" /\ row[j] # "READY") PROVE TypeOK'
      <4>1. /\ ack' = 0 /\ timers' = T
            /\ UNCHANGED <<token, regs, ackTimer, polls, toDll>>
        BY <3>1, <3>2, <3>4 DEF Registered, Via
      <4>2. roster' \subseteq roster \cup {j}
        BY <3>1, <3>2, <3>4 DEF Registered, Via
      <4>3. /\ assigned' \in Instance \cup {None} /\ invited' \in Mission \cup {None}
            /\ spectating' \in BOOLEAN /\ dest' \in Instance \cup {None}
        <5>1. ReadyHomes \subseteq Instance BY <1>0 DEF ReadyHomes
        <5>. QED BY <3>1, <3>2, <3>4, <5>1, <1>0 DEF Registered, Via, GoPlay, TypeOK
      <4>. QED BY <2>1, <2>2, <3>2, <4>1, <4>2, <4>3, <1>0 DEF TypeOK
    <3>. QED BY <3>3, <3>4
  <2>. QED BY <2>3, <2>4
<1>13. ASSUME NEW i \in Instance, PlayerLeft(i) PROVE TypeOK'
  <2>1. toControl' \in [Instance -> Seq(ToCtlMsg)]
    BY <1>13, ToControlType DEF PlayerLeft
  <2>2. row' \in [Instance -> {"STARTING", "READY", "STOPPED"}]
    BY <1>13 DEF PlayerLeft, TypeOK
  <2>. QED BY <1>13, <2>1, <2>2 DEF PlayerLeft, TypeOK
<1>14. ASSUME NEW i \in Instance, DllRegister(i) PROVE TypeOK'
  <2>1. toDll' \in [Instance -> Seq(ToDllMsg)] /\ Head(toDll[i]) \in ToDllMsg
    BY <1>14, ReceiveType DEF DllRegister
  <2>2. [gen |-> registry[i].gen + 1, token |-> Head(toDll[i]).token, held |-> TRUE] \in Entry
    BY SMTT(60), <2>1 DEF TypeOK, Entry, ToDllMsg
  <2>3. registry' \in [Instance -> Entry] BY <1>14, <2>2 DEF DllRegister, TypeOK
  <2>4. toControl' \in [Instance -> Seq(ToCtlMsg)] BY <1>14, ToControlType DEF DllRegister
  <2>. QED BY <1>14, <2>1, <2>3, <2>4 DEF DllRegister, TypeOK
<1>15. ASSUME NEW i \in Instance, DllLeave(i) PROVE TypeOK'
  <2>1. toDll' \in [Instance -> Seq(ToDllMsg)] BY <1>15, ReceiveType DEF DllLeave
  <2>2. Addressed(i, Head(toDll[i])) \in SUBSET Conn BY DEF Addressed, Known
  <2>3. Cleanup(i, Addressed(i, Head(toDll[i]))) BY <1>15 DEF DllLeave
  <2>4. /\ conns' \in [Instance -> [Conn -> Connection]]
        /\ toControl' \in [Instance -> Seq(ToCtlMsg)]
        /\ registry' \in [Instance -> Entry]
    BY <2>2, <2>3, CleanupType
  <2>. QED BY <1>15, <2>1, <2>4 DEF DllLeave, TypeOK
<1>16. ASSUME NEW i \in Instance, DllClose(i) PROVE TypeOK'
  <2>1. toDll' \in [Instance -> Seq(ToDllMsg)] BY <1>16, ReceiveType DEF DllClose
  <2>2. conns' \in [Instance -> [Conn -> Connection]]
    <3>1. \A c \in Conn : [conns[i][c] EXCEPT !.closed = TRUE] \in Connection
      BY ConnectionType
    <3>. QED BY <1>16, <3>1 DEF DllClose, TypeOK
  <2>. QED BY <1>16, <2>1, <2>2 DEF DllClose, TypeOK
<1>17. ASSUME NEW i \in Instance, NEW c \in Conn, Hello(i, c) PROVE TypeOK'
  <2>1. [conns[i][c] EXCEPT !.st = "hello"] \in Connection BY ConnectionType
  <2>2. conns' \in [Instance -> [Conn -> Connection]] BY <1>17, <2>1 DEF Hello, TypeOK
  <2>. QED BY <1>17, <2>2, <1>0 DEF Hello, TypeOK
<1>18. ASSUME NEW i \in Instance, NEW c \in Conn, Join(i, c) PROVE TypeOK'
  <2>1. registry[i].token \in Token BY DEF TypeOK, Entry
  <2>2. conns' \in [Instance -> [Conn -> Connection]]
    <3>1. /\ [conns[i][c] EXCEPT !.st = "joined", !.token = registry[i].token] \in Connection
          /\ [conns[i][c] EXCEPT !.closed = TRUE] \in Connection
      BY <2>1, ConnectionType
    <3>. QED BY <1>18, <3>1 DEF Join, TypeOK
  <2>. QED BY <1>18, <2>2 DEF Join, TypeOK
<1>19. ASSUME NEW i \in Instance, NEW c \in Conn, Quiet(i, c) PROVE TypeOK'
  <2>1. [conns[i][c] EXCEPT !.closed = TRUE] \in Connection BY ConnectionType
  <2>2. conns' \in [Instance -> [Conn -> Connection]] BY <1>19, <2>1 DEF Quiet, TypeOK
  <2>. QED BY <1>19, <2>2 DEF Quiet, TypeOK
<1>20. ASSUME NEW i \in Instance, NEW c \in Conn, Reap(i, c) PROVE TypeOK'
  <2>1. Cleanup(i, {c}) /\ {c} \in SUBSET Conn BY <1>20 DEF Reap
  <2>2. /\ conns' \in [Instance -> [Conn -> Connection]]
        /\ toControl' \in [Instance -> Seq(ToCtlMsg)]
        /\ registry' \in [Instance -> Entry]
    BY <2>1, CleanupType
  <2>. QED BY <1>20, <2>2 DEF Reap, TypeOK
<1>21. ASSUME NEW i \in Instance, Stop(i) PROVE TypeOK'
  BY <1>21 DEF Stop, TypeOK
<1>22. ASSUME NEW i \in Instance, Down(i) PROVE TypeOK'
  <2>1. /\ row' \in [Instance -> {"STARTING", "READY", "STOPPED"}]
        /\ registry' \in [Instance -> Entry]
    BY <1>22 DEF Down, TypeOK, Entry
  <2>2. Free \in Connection
    BY <1>0 DEF Free, Connection
  <2>3. conns' \in [Instance -> [Conn -> Connection]]
    BY <1>22, <2>2 DEF Down, TypeOK
  <2>4. toDll' \in [Instance -> Seq(ToDllMsg)] /\ toControl' \in [Instance -> Seq(ToCtlMsg)]
    BY <1>22 DEF Down, TypeOK
  <2>. QED BY <1>22, <2>1, <2>3, <2>4 DEF Down, TypeOK
<1>23. ASSUME NEW h \in Home, HomeReady(h) PROVE TypeOK'
  BY <1>23 DEF HomeReady, TypeOK
<1>24. CASE UNCHANGED vars
  BY <1>24 DEF vars, TypeOK
<1>. QED
  BY <1>1, <1>2, <1>3, <1>4, <1>5, <1>6, <1>7, <1>8, <1>9, <1>10, <1>11, <1>12, <1>13,
     <1>14, <1>15, <1>16, <1>17, <1>18, <1>19, <1>20, <1>21, <1>22, <1>23, <1>24 DEF Next

\* Type correctness of the registration of one session in the instances.
THEOREM TypeCorrect == Spec => []TypeOK
BY InitType, NextType, PTL DEF Spec

-----------------------------------------------------------------------------
(* PendingAckTimed.                                                         *)

\* A registration with a token waits with its timer, or does not wait.
LEMMA RegisterWithTokenTimed ==
    ASSUME TypeOK, NEW i, NEW via, NEW T, RegisterWithToken(i, via, T)
    PROVE  PendingAckTimed'
<1>1. Len(regs') = Len(regs) + 1 BY DEF RegisterWithToken, TypeOK
<1>. QED BY <1>1 DEF RegisterWithToken, Arm, PendingAckTimed

\* So does whoever goes home, if what was waited for before is left alone or
\* given up.
LEMMA HomeOrPollTimed ==
    ASSUME TypeOK, PendingAckTimed, NEW a, NEW T, NEW callback, NEW timer,
           HomeOrPoll(a, T, callback, timer),
           callback = 0 \/ (callback = ack /\ timer = ackTimer /\ T = timers)
    PROVE  PendingAckTimed'
<1>1. CASE \E h : RegisterWithToken(h, "home", T)
  BY <1>1, RegisterWithTokenTimed
<1>2. CASE ack' = callback /\ ackTimer' = timer /\ timers' = T /\ UNCHANGED regs
  BY <1>2 DEF PendingAckTimed
<1>. QED BY <1>1, <1>2 DEF HomeOrPoll

\* Every step keeps a registration that is waited for timed.
LEMMA NextTimed == TypeOK /\ PendingAckTimed /\ [Next]_vars => PendingAckTimed'
<1>. SUFFICES ASSUME TypeOK, PendingAckTimed, [Next]_vars PROVE PendingAckTimed'
  OBVIOUS
<1>0. CASE UNCHANGED ackVars
  BY <1>0 DEF ackVars, PendingAckTimed
<1>1. CASE SelectCharacter
  BY <1>1, HomeOrPollTimed DEF SelectCharacter
<1>2. CASE HomePoll
  BY <1>0, <1>2, RegisterWithTokenTimed DEF HomePoll, ackVars
<1>3. CASE MatchAccept
  <2>1. CASE /\ regs' = Append(regs, [inst |-> invited, via |-> "match"])
             /\ Arm(Len(regs) + 1, timers)
    <3>1. Len(regs') = Len(regs) + 1 BY <2>1 DEF TypeOK
    <3>. QED BY <2>1, <3>1 DEF Arm, PendingAckTimed
  <2>. QED BY <1>0, <1>3, <2>1 DEF MatchAccept
<1>4. ASSUME NEW m \in Mission, Spectate(m) PROVE PendingAckTimed'
  BY <1>4, RegisterWithTokenTimed DEF Spectate
<1>5. ASSUME NEW n \in RegNo, AckTimeout(n) PROVE PendingAckTimed'
  <2>1. CASE regs[n].via = "target"
    BY <1>5, <2>1, HomeOrPollTimed DEF AckTimeout
  <2>2. CASE regs[n].via # "target"
    BY <1>5, <2>2 DEF AckTimeout, PendingAckTimed
  <2>. QED BY <2>1, <2>2
<1>6. CASE ChangeInstance
  <2>1. CASE assigned \in Home
    BY <1>0, <1>6, <2>1 DEF ChangeInstance
  <2>2. CASE assigned \notin Home
    <3>. DEFINE T == timers \ {ackTimer}
                callback == IF ackTimer = 0 THEN ack ELSE 0
    <3>1. callback = 0 BY DEF PendingAckTimed
    <3>2. CASE HomeOrPoll(None, T, callback, 0) BY <3>1, <3>2, HomeOrPollTimed
    <3>3. CASE \E s : RegisterWithToken(s, "target", T) BY <3>3, RegisterWithTokenTimed
    <3>. QED BY <1>6, <2>2, <3>2, <3>3 DEF ChangeInstance
  <2>. QED BY <2>1, <2>2
<1>7. CASE Unspectate
  <2>1. CASE \E h : /\ regs' = Append(regs, [inst |-> h, via |-> "home"])
                    /\ \/ Arm(Len(regs) + 1, timers)
                       \/ ack' = 0
    <3>1. Len(regs') = Len(regs) + 1 BY <2>1 DEF TypeOK
    <3>. QED BY <2>1, <3>1 DEF Arm, PendingAckTimed
  <2>2. CASE \E h \in ReadyHomes :
               /\ regs' = Append(regs, [inst |-> h, via |-> "home"])
               /\ IF h \in up
                  THEN Arm(Len(regs) + 1, timers)
                  ELSE ack' = 0 /\ ackTimer' = 0 /\ UNCHANGED timers
    BY <2>1, <2>2
  <2>. QED BY <1>0, <1>7, <2>2 DEF Unspectate
<1>8. CASE SocketDisconnect
  BY <1>8 DEF SocketDisconnect, PendingAckTimed
<1>9. ASSUME NEW i \in Instance, RegisterAck(i) PROVE PendingAckTimed'
  <2>1. CASE ack = 0
    BY <1>0, <1>9, <2>1 DEF RegisterAck
  <2>2. CASE ack # 0
    <3>1. Registered(ack) BY <1>9, <2>2 DEF RegisterAck
    <3>2. regs[ack].via \in Via
      <4>1. ack \in 1 .. Len(regs) /\ regs \in Seq([inst : Instance, via : Via])
        BY <2>2 DEF TypeOK
      <4>2. regs[ack] \in [inst : Instance, via : Via] BY <4>1, ElementOfSeq
      <4>. QED BY <4>2
    <3>3. CASE HomeOrPoll(None, timers \ {ack}, 0, ackTimer)
      BY <3>3, HomeOrPollTimed
    <3>4. CASE ack' = 0
      BY <3>4 DEF PendingAckTimed
    <3>. QED BY <3>1, <3>2, <3>3, <3>4 DEF Registered, Via
  <2>. QED BY <2>1, <2>2
<1>10. ASSUME NEW i \in Instance,
              \/ PlayerLeft(i) \/ DllRegister(i) \/ DllLeave(i) \/ DllClose(i)
              \/ Stop(i) \/ Down(i)
              \/ \E c \in Conn : Hello(i, c) \/ Join(i, c) \/ Quiet(i, c) \/ Reap(i, c)
       PROVE  PendingAckTimed'
  <2>1. UNCHANGED ackVars
    BY <1>10 DEF PlayerLeft, DllRegister, DllLeave, DllClose, Stop, Down, Hello, Join,
                 Quiet, Reap
  <2>. QED BY <1>0, <2>1
<1>11. CASE \/ LeaveGame \/ GhostSweep
            \/ \E m \in Mission : Invite(m)
            \/ \E h \in Home : HomeReady(h)
            \/ UNCHANGED vars
  <2>1. UNCHANGED ackVars
    BY <1>11 DEF LeaveGame, GhostSweep, Invite, HomeReady, vars
  <2>. QED BY <1>0, <2>1
<1>. QED
  BY <1>1, <1>2, <1>3, <1>4, <1>5, <1>6, <1>7, <1>8, <1>9, <1>10, <1>11 DEF Next

\* A client is never left waiting for an ACK whose 60 s are not running, and it
\* waits for its latest registration: ack # 0 implies that the timer of that
\* registration runs, for any number of overlapping registrations, timeouts,
\* polls, stops and late ACKs.
THEOREM PendingAckTimedAlways == Spec => []PendingAckTimed
<1>1. Init => PendingAckTimed BY DEF Init, PendingAckTimed
<1>. QED BY <1>1, TypeCorrect, NextTimed, PTL DEF Spec

-----------------------------------------------------------------------------
(* SentIsRegistered.                                                        *)

IsRegister(m)   == m.type = "REGISTER"
HasRegister(q)  == \E k \in DOMAIN q : IsRegister(q[k])

\* A PLAYER_REGISTER in a queue stays there until it is at the head.
LEMMA HasRegisterKept ==
    ASSUME NEW q \in Seq(ToDllMsg)
    PROVE  /\ \A m \in ToDllMsg : HasRegister(q) \/ IsRegister(m) => HasRegister(Append(q, m))
           /\ q # <<>> /\ HasRegister(q) /\ ~IsRegister(Head(q)) => HasRegister(Tail(q))
           /\ \A r \in Seq(ToDllMsg) : HasRegister(q) => HasRegister(q \o r)
           /\ \A r \in Seq(ToDllMsg) : HasRegister(r) => HasRegister(q \o r)
<1>1. ASSUME NEW m \in ToDllMsg, HasRegister(q) \/ IsRegister(m)
      PROVE  HasRegister(Append(q, m))
  <2>1. CASE HasRegister(q)
    <3>1. PICK k \in 1 .. Len(q) : IsRegister(q[k]) BY <2>1 DEF HasRegister
    <3>2. Append(q, m)[k] = q[k] /\ k \in DOMAIN Append(q, m) BY <3>1
    <3>. QED BY <3>1, <3>2 DEF HasRegister
  <2>2. CASE IsRegister(m)
    <3>1. Append(q, m)[Len(q) + 1] = m /\ Len(q) + 1 \in DOMAIN Append(q, m) OBVIOUS
    <3>. QED BY <2>2, <3>1 DEF HasRegister
  <2>. QED BY <1>1, <2>1, <2>2
<1>2. ASSUME q # <<>>, HasRegister(q), ~IsRegister(Head(q)) PROVE HasRegister(Tail(q))
  <2>1. PICK k \in 1 .. Len(q) : IsRegister(q[k]) BY <1>2 DEF HasRegister
  <2>2. k # 1 BY <1>2, <2>1
  <2>3. Tail(q)[k - 1] = q[k] /\ k - 1 \in DOMAIN Tail(q) BY <1>2, <2>1, <2>2
  <2>. QED BY <2>1, <2>3 DEF HasRegister
<1>3. ASSUME NEW r \in Seq(ToDllMsg), HasRegister(q) PROVE HasRegister(q \o r)
  <2>1. PICK k \in 1 .. Len(q) : IsRegister(q[k]) BY <1>3 DEF HasRegister
  <2>2. (q \o r)[k] = q[k] /\ k \in DOMAIN (q \o r) BY <2>1
  <2>. QED BY <2>1, <2>2 DEF HasRegister
<1>4. ASSUME NEW r \in Seq(ToDllMsg), HasRegister(r) PROVE HasRegister(q \o r)
  <2>1. PICK k \in 1 .. Len(r) : IsRegister(r[k]) BY <1>4 DEF HasRegister
  <2>2. (q \o r)[Len(q) + k] = r[k] /\ Len(q) + k \in DOMAIN (q \o r) BY <2>1
  <2>. QED BY <2>1, <2>2 DEF HasRegister
<1>. QED BY <1>1, <1>2, <1>3, <1>4

\* InFlight in these terms.
LEMMA InFlightIs == \A i : InFlight(i) <=> HasRegister(toDll[i])
BY DEF InFlight, HasRegister, IsRegister

\* Sending removes nothing, and a PLAYER_REGISTER sent to a connected instance
\* is in flight.
LEMMA SentKeeps ==
    ASSUME TypeOK, NEW j, NEW m \in ToDllMsg, NEW i \in Instance,
           toDll' = Sent(j, m)
    PROVE  /\ HasRegister(toDll[i]) => HasRegister(toDll'[i])
           /\ i = j /\ i \in up /\ IsRegister(m) => HasRegister(toDll'[i])
<1>1. toDll[i] \in Seq(ToDllMsg) /\ toDll \in [Instance -> Seq(ToDllMsg)] BY DEF TypeOK
<1>2. toDll'[i] = IF i = j /\ i \in up THEN Append(toDll[i], m) ELSE toDll[i]
  BY <1>1 DEF Sent
<1>. QED BY <1>1, <1>2, HasRegisterKept

\* JOIN never copies register_generation into the connection.
Unbound == \A i \in Instance, c \in Conn : conns[i][c].gen = 0

\* A connection that no step binds stays unbound.
LEMMA NextUnbound == TypeOK /\ Unbound /\ [Next]_vars => Unbound'
<1>. SUFFICES ASSUME TypeOK, Unbound, [Next]_vars, NEW i \in Instance, NEW c \in Conn
              PROVE  conns'[i][c].gen = 0
  BY DEF Unbound
<1>. USE DEF dllVars
<1>0. conns \in [Instance -> [Conn -> Connection]] /\ conns[i][c] \in Connection
      /\ conns[i][c].gen = 0 /\ Free.gen = 0
  BY DEF TypeOK, Unbound, Free
<1>1. CASE UNCHANGED conns BY <1>0, <1>1
<1>2. ASSUME NEW j \in Instance, NEW S, Cleanup(j, S) PROVE conns'[i][c].gen = 0
  BY <1>0, <1>2 DEF Cleanup
<1>3. ASSUME NEW j \in Instance, DllClose(j) PROVE conns'[i][c].gen = 0
  BY <1>0, <1>3 DEF DllClose, Connection
<1>4. ASSUME NEW j \in Instance, NEW d \in Conn, Hello(j, d) \/ Join(j, d) \/ Quiet(j, d)
      PROVE  conns'[i][c].gen = 0
  <2>1. CASE Hello(j, d) BY <1>0, <2>1 DEF Hello, Connection
  <2>2. CASE Join(j, d) BY <1>0, <2>2 DEF Join, Connection
  <2>3. CASE Quiet(j, d) BY <1>0, <2>3 DEF Quiet, Connection
  <2>. QED BY <1>4, <2>1, <2>2, <2>3
<1>5. ASSUME NEW j \in Instance, Down(j) PROVE conns'[i][c].gen = 0
  BY <1>0, <1>5 DEF Down
<1>6. ASSUME NEW j \in Instance, \/ DllLeave(j)
                                \/ \E d \in Conn : Reap(j, d)
      PROVE conns'[i][c].gen = 0
  BY <1>2, <1>6 DEF DllLeave, Reap
<1>7. ASSUME NEW j \in Instance, RegisterAck(j) \/ PlayerLeft(j) \/ DllRegister(j) \/ Stop(j)
      PROVE  UNCHANGED conns
  BY <1>7 DEF RegisterAck, PlayerLeft, DllRegister, Stop
<1>8. CASE \/ SelectCharacter \/ HomePoll \/ MatchAccept
           \/ \E m \in Mission : Invite(m) \/ Spectate(m)
           \/ \E n \in RegNo : AckTimeout(n)
           \/ LeaveGame \/ ChangeInstance \/ Unspectate \/ SocketDisconnect \/ GhostSweep
           \/ \E h \in Home : HomeReady(h)
           \/ UNCHANGED vars
  <2>1. UNCHANGED conns
    BY <1>8 DEF SelectCharacter, HomePoll, MatchAccept, Invite, Spectate, AckTimeout,
                LeaveGame, ChangeInstance, Unspectate, SocketDisconnect, GhostSweep,
                HomeReady, vars
  <2>. QED BY <1>1, <2>1
<1>. QED BY <1>1, <1>3, <1>4, <1>5, <1>6, <1>7, <1>8 DEF Next

\* An instance that expects the session goes on expecting it: a registration
\* is only lost with the process.
LEMMA ExpectedKept ==
    ASSUME TypeOK, Unbound, [Next]_vars, NEW i \in Instance, Expected(i)
    PROVE  Expected(i)'
<1>. SUFFICES ASSUME i \in up' PROVE registry'[i].held \/ HasRegister(toDll'[i])
  BY DEF Expected, InFlight, HasRegister, IsRegister
<1>. USE DEF rowVars, dllVars
<1>0. /\ toDll \in [Instance -> Seq(ToDllMsg)] /\ registry \in [Instance -> Entry]
      /\ toDll[i] \in Seq(ToDllMsg) /\ token \in Token /\ 0 \in Token
  BY RegistrationAssumption DEF TypeOK, Token
<1>1. i \in up => registry[i].held \/ HasRegister(toDll[i])
  BY InFlightIs DEF Expected
<1>2. ASSUME i \in up, registry'[i].held = registry[i].held,
             HasRegister(toDll[i]) => HasRegister(toDll'[i])
      PROVE  registry'[i].held \/ HasRegister(toDll'[i])
  BY <1>1, <1>2
<1>3. ASSUME UNCHANGED <<up, registry>>, NEW j, NEW m \in ToDllMsg, toDll' = Sent(j, m)
      PROVE  registry'[i].held \/ HasRegister(toDll'[i])
  BY <1>2, <1>3, SentKeeps
<1>4. ASSUME UNCHANGED <<up, registry, toDll>> PROVE registry'[i].held \/ HasRegister(toDll'[i])
  BY <1>2, <1>4
<1>5. ASSUME UNCHANGED <<up, registry>>, NEW j, NEW via, NEW T, RegisterWithToken(j, via, T)
      PROVE  registry'[i].held \/ HasRegister(toDll'[i])
  <2>1. Message("REGISTER", Len(regs) + 1) \in ToDllMsg
    <3>1. Len(regs) + 1 \in Token
      BY <1>5, RegistrationAssumption DEF RegisterWithToken, TypeOK, Token
    <3>. QED BY <3>1 DEF Message, ToDllMsg
  <2>. QED BY <1>3, <1>5, <2>1 DEF RegisterWithToken
<1>6. ASSUME UNCHANGED <<up, registry>>, NEW a, NEW T, NEW cb, NEW t, HomeOrPoll(a, T, cb, t)
      PROVE  registry'[i].held \/ HasRegister(toDll'[i])
  BY <1>4, <1>5, <1>6 DEF HomeOrPoll
<1>7. CASE SelectCharacter BY <1>6, <1>7 DEF SelectCharacter
<1>8. CASE HomePoll BY <1>4, <1>5, <1>8 DEF HomePoll
<1>9. CASE MatchAccept
  <2>1. Message("REGISTER", 0) \in ToDllMsg BY <1>0 DEF Message, ToDllMsg
  <2>. QED BY <1>3, <1>4, <1>9, <2>1 DEF MatchAccept
<1>10. ASSUME NEW m \in Mission, Invite(m) \/ Spectate(m)
       PROVE  registry'[i].held \/ HasRegister(toDll'[i])
  BY <1>4, <1>5, <1>10 DEF Invite, Spectate
<1>11. ASSUME NEW n \in RegNo, AckTimeout(n) PROVE registry'[i].held \/ HasRegister(toDll'[i])
  BY <1>4, <1>6, <1>11 DEF AckTimeout
<1>12. CASE LeaveGame
  <2>1. Message("LEAVE", token) \in ToDllMsg BY <1>0 DEF Message, ToDllMsg
  <2>. QED BY <1>3, <1>4, <1>12, <2>1 DEF LeaveGame
<1>13. CASE ChangeInstance BY <1>4, <1>5, <1>6, <1>13 DEF ChangeInstance
<1>14. CASE Unspectate
  <2>. DEFINE close == IF assigned \in up THEN <<Message("CLOSE", token)>> ELSE <<>>
  <2>0. close \in Seq(ToDllMsg)
    <3>1. Message("CLOSE", token) \in ToDllMsg BY <1>0 DEF Message, ToDllMsg
    <3>. QED BY <3>1
  <2>. HIDE DEF close
  <2>1. UNCHANGED <<up, registry>> BY <1>14 DEF Unspectate
  <2>2. CASE ReadyHomes = {}
    <3>1. toDll' = [j \in Instance |-> IF j = assigned THEN toDll[j] \o close ELSE toDll[j]]
      BY <1>14, <2>2 DEF Unspectate, close
    <3>2. HasRegister(toDll[i]) => HasRegister(toDll'[i])
      BY <1>0, <2>0, <3>1, HasRegisterKept
    <3>. QED BY <1>2, <2>1, <3>2
  <2>3. CASE ReadyHomes # {}
    <3>1. PICK h \in ReadyHomes :
             /\ Len(regs) < MaxRegs
             /\ toDll' = [j \in Instance |->
                     toDll[j]
                     \o (IF j = assigned THEN close ELSE <<>>)
                     \o (IF j = h /\ h \in up
                         THEN <<Message("REGISTER", Len(regs) + 1)>> ELSE <<>>)]
      BY <1>14, <2>3 DEF Unspectate, close
    <3>2. <<Message("REGISTER", Len(regs) + 1)>> \in Seq(ToDllMsg)
      <4>1. Len(regs) + 1 \in Token BY <3>1, RegistrationAssumption DEF TypeOK, Token
      <4>2. Message("REGISTER", Len(regs) + 1) \in ToDllMsg BY <4>1 DEF Message, ToDllMsg
      <4>. QED BY <4>2
    <3>. DEFINE q == toDll[i] \o (IF i = assigned THEN close ELSE <<>>)
                r == IF i = h /\ h \in up
                     THEN <<Message("REGISTER", Len(regs) + 1)>> ELSE <<>>
    <3>3. q \in Seq(ToDllMsg) /\ (HasRegister(toDll[i]) => HasRegister(q))
      <4>. DEFINE p == IF i = assigned THEN close ELSE <<>>
      <4>1. p \in Seq(ToDllMsg) /\ q = toDll[i] \o p BY <2>0
      <4>. HIDE DEF p, q
      <4>2. q \in Seq(ToDllMsg) BY <4>1, <1>0
      <4>. QED BY <4>1, <4>2, <1>0, HasRegisterKept
    <3>4. r \in Seq(ToDllMsg) BY <3>2
    <3>5. toDll'[i] = q \o r BY <3>1
    <3>. HIDE DEF q, r
    <3>6. HasRegister(q) => HasRegister(toDll'[i]) BY <3>3, <3>4, <3>5, HasRegisterKept
    <3>. QED BY <1>2, <2>1, <3>3, <3>6
  <2>. QED BY <2>2, <2>3
<1>15. CASE SocketDisconnect
  <2>1. Message("CLOSE", token) \in ToDllMsg BY <1>0 DEF Message, ToDllMsg
  <2>. QED BY <1>3, <1>4, <1>15, <2>1 DEF SocketDisconnect
<1>16. CASE GhostSweep
  <2>1. Message("CLOSE", 0) \in ToDllMsg BY <1>0 DEF Message, ToDllMsg
  <2>2. HasRegister(toDll[i]) => HasRegister(toDll'[i])
    BY <1>0, <1>16, <2>1, HasRegisterKept DEF GhostSweep
  <2>3. UNCHANGED <<up, registry>> BY <1>16 DEF GhostSweep
  <2>. QED BY <1>2, <2>2, <2>3
<1>17. ASSUME NEW j \in Instance, RegisterAck(j) PROVE registry'[i].held \/ HasRegister(toDll'[i])
  <2>1. UNCHANGED <<up, registry>> BY <1>17 DEF RegisterAck
  <2>2. CASE ack = 0
    <3>1. UNCHANGED toDll BY <1>17, <2>2 DEF RegisterAck
    <3>. QED BY <1>4, <2>1, <3>1
  <2>3. CASE ack # 0
    <3>1. Registered(ack) BY <1>17, <2>3 DEF RegisterAck
    <3>2. regs[ack].via \in Via
      <4>1. ack \in 1 .. Len(regs) /\ regs \in Seq([inst : Instance, via : Via])
        BY <2>3 DEF TypeOK
      <4>2. regs[ack] \in [inst : Instance, via : Via] BY <4>1, ElementOfSeq
      <4>. QED BY <4>2
    <3>3. CASE HomeOrPoll(None, timers \ {ack}, 0, ackTimer) BY <1>6, <2>1, <3>3
    <3>4. CASE UNCHANGED toDll BY <1>4, <2>1, <3>4
    <3>. QED BY <3>1, <3>2, <3>3, <3>4 DEF Registered, Via
  <2>. QED BY <2>2, <2>3
<1>18. ASSUME NEW j \in Instance, NEW type, Receive(j, type), type # "REGISTER", i \in up,
              registry'[i].held = registry[i].held
       PROVE  registry'[i].held \/ HasRegister(toDll'[i])
  <2>1. CASE j # i BY <1>0, <1>2, <1>18, <2>1 DEF Receive
  <2>2. CASE j = i
    <3>1. toDll'[i] = Tail(toDll[i]) /\ toDll[i] # <<>> /\ ~IsRegister(Head(toDll[i]))
      BY <1>0, <1>18, <2>2 DEF Receive, IsRegister
    <3>. QED BY <1>0, <1>2, <1>18, <3>1, HasRegisterKept
  <2>. QED BY <2>1, <2>2
<1>19. ASSUME NEW j \in Instance, NEW S \in SUBSET Conn, Cleanup(j, S)
       PROVE  registry' = registry
  BY <1>19 DEF Cleanup, Unregistered, Unbound
<1>20. ASSUME NEW j \in Instance, DllLeave(j) PROVE registry'[i].held \/ HasRegister(toDll'[i])
  <2>1. Addressed(j, Head(toDll[j])) \in SUBSET Conn BY DEF Addressed, Known
  <2>2. registry' = registry BY <1>19, <1>20, <2>1 DEF DllLeave
  <2>3. i \in up /\ Receive(j, "LEAVE") BY <1>20 DEF DllLeave
  <2>. QED BY <1>18, <2>2, <2>3
<1>21. ASSUME NEW j \in Instance, DllClose(j) PROVE registry'[i].held \/ HasRegister(toDll'[i])
  <2>1. i \in up /\ Receive(j, "CLOSE") /\ registry' = registry BY <1>21 DEF DllClose
  <2>. QED BY <1>18, <2>1
<1>22. ASSUME NEW j \in Instance, DllRegister(j) PROVE registry'[i].held \/ HasRegister(toDll'[i])
  <2>1. CASE j = i BY <1>0, <1>22, <2>1 DEF DllRegister
  <2>2. CASE j # i
    <3>1. registry'[i] = registry[i] /\ toDll'[i] = toDll[i] /\ i \in up
      BY <1>0, <1>22, <2>2 DEF DllRegister, Receive
    <3>. QED BY <1>2, <3>1
  <2>. QED BY <2>1, <2>2
<1>23. ASSUME NEW j \in Instance, NEW c \in Conn, Hello(j, c) \/ Join(j, c) \/ Quiet(j, c)
       PROVE  registry'[i].held \/ HasRegister(toDll'[i])
  BY <1>4, <1>23 DEF Hello, Join, Quiet
<1>24. ASSUME NEW j \in Instance, NEW c \in Conn, Reap(j, c)
       PROVE  registry'[i].held \/ HasRegister(toDll'[i])
  <2>1. registry' = registry BY <1>19, <1>24 DEF Reap
  <2>. QED BY <1>4, <1>24, <2>1 DEF Reap
<1>25. ASSUME NEW j \in Instance, PlayerLeft(j) \/ Stop(j)
       PROVE  registry'[i].held \/ HasRegister(toDll'[i])
  BY <1>4, <1>25 DEF PlayerLeft, Stop
<1>26. ASSUME NEW j \in Instance, Down(j) PROVE registry'[i].held \/ HasRegister(toDll'[i])
  <2>1. i # j /\ i \in up BY <1>26 DEF Down
  <2>2. registry'[i] = registry[i] /\ toDll'[i] = toDll[i] BY <1>0, <1>26, <2>1 DEF Down
  <2>. QED BY <1>2, <2>1, <2>2
<1>27. ASSUME NEW h \in Home, HomeReady(h) PROVE registry'[i].held \/ HasRegister(toDll'[i])
  BY <1>4, <1>27 DEF HomeReady
<1>28. CASE UNCHANGED vars BY <1>4, <1>28 DEF vars
<1>. QED
  BY <1>7, <1>8, <1>9, <1>10, <1>11, <1>12, <1>13, <1>14, <1>15, <1>16, <1>17, <1>20, <1>21,
     <1>22, <1>23, <1>24, <1>25, <1>26, <1>27, <1>28 DEF Next

\* A home registration is with a home map.
HomeRegs == \A n \in DOMAIN regs : regs[n].via = "home" => regs[n].inst \in Home

\* Every registration so far was sent to an instance that expects the session.
Asked == \A n \in DOMAIN regs : Expected(regs[n].inst)

\* The inductive invariant behind SentIsRegistered.
SentInv == Unbound /\ HomeRegs /\ Asked /\ SentIsRegistered

\* How the list of registrations may change: not at all, to nothing, or by one
\* that has been sent where it says.
RegsStep ==
    \/ UNCHANGED regs
    \/ regs' = <<>>
    \/ \E i \in Instance, via \in Via :
          /\ regs' = Append(regs, [inst |-> i, via |-> via])
          /\ via = "home" => i \in Home
          /\ i \in up' => HasRegister(toDll'[i])

\* RegisterWithToken is such a change.
LEMMA RegisterWithTokenStep ==
    ASSUME TypeOK, NEW i \in Instance, NEW via \in Via, NEW T, UNCHANGED up,
           RegisterWithToken(i, via, T), via = "home" => i \in Home
    PROVE  RegsStep
<1>1. Message("REGISTER", Len(regs) + 1) \in ToDllMsg
  <2>1. Len(regs) + 1 \in Token
    BY RegistrationAssumption DEF RegisterWithToken, TypeOK, Token
  <2>. QED BY <2>1 DEF Message, ToDllMsg
<1>2. IsRegister(Message("REGISTER", Len(regs) + 1)) BY DEF IsRegister, Message
<1>3. i \in up' => HasRegister(toDll'[i])
  BY <1>1, <1>2, SentKeeps DEF RegisterWithToken
<1>. QED BY <1>3 DEF RegisterWithToken, RegsStep

\* So is going home.
LEMMA HomeOrPollStep ==
    ASSUME TypeOK, NEW a, NEW T, NEW cb, NEW t, UNCHANGED up, HomeOrPoll(a, T, cb, t)
    PROVE  RegsStep
<1>1. \A h \in ReadyHomes : h \in Instance /\ h \in Home BY DEF ReadyHomes, Instance
<1>2. "home" \in Via BY DEF Via
<1>3. CASE \E h \in ReadyHomes : RegisterWithToken(h, "home", T)
  BY <1>1, <1>2, <1>3, RegisterWithTokenStep
<1>4. CASE UNCHANGED regs BY <1>4 DEF RegsStep
<1>. QED BY <1>3, <1>4 DEF HomeOrPoll

\* The steps with nothing to do with registering leave the list alone.
LEMMA NextRegs == TypeOK /\ [Next]_vars => RegsStep
<1>. SUFFICES ASSUME TypeOK, [Next]_vars PROVE RegsStep
  OBVIOUS
<1>. USE DEF rowVars, ackVars
<1>0. /\ Via = {"home", "target", "match", "spectate"} /\ Mission \subseteq Instance
      /\ ReadyHomes \subseteq Home /\ Home \subseteq Instance
  BY DEF Via, Instance, ReadyHomes
<1>1. CASE UNCHANGED regs BY <1>1 DEF RegsStep
<1>2. CASE SelectCharacter BY <1>2, HomeOrPollStep DEF SelectCharacter
<1>3. CASE HomePoll BY <1>0, <1>1, <1>3, RegisterWithTokenStep DEF HomePoll
<1>4. CASE MatchAccept
  <2>1. Message("REGISTER", 0) \in ToDllMsg /\ IsRegister(Message("REGISTER", 0))
    BY RegistrationAssumption DEF Message, ToDllMsg, IsRegister, Token
  <2>2. CASE /\ regs' = Append(regs, [inst |-> invited, via |-> "match"])
             /\ toDll' = Sent(invited, Message("REGISTER", 0))
             /\ invited \in up /\ UNCHANGED up
    <3>1. invited \in Instance BY <2>2 DEF TypeOK
    <3>2. HasRegister(toDll'[invited]) BY <2>1, <2>2, <3>1, SentKeeps
    <3>. QED BY <1>0, <2>2, <3>1, <3>2 DEF RegsStep
  <2>. QED BY <1>1, <1>4, <2>2 DEF MatchAccept
<1>5. ASSUME NEW m \in Mission, Spectate(m) PROVE RegsStep
  BY <1>0, <1>5, RegisterWithTokenStep DEF Spectate
<1>6. ASSUME NEW n \in RegNo, AckTimeout(n) PROVE RegsStep
  BY <1>1, <1>6, HomeOrPollStep DEF AckTimeout
<1>7. CASE ChangeInstance
  BY <1>0, <1>1, <1>7, HomeOrPollStep, RegisterWithTokenStep DEF ChangeInstance
<1>8. CASE Unspectate
  <2>1. CASE ReadyHomes = {} BY <1>1, <1>8, <2>1 DEF Unspectate
  <2>2. CASE ReadyHomes # {}
    <3>. DEFINE close == IF assigned \in up THEN <<Message("CLOSE", token)>> ELSE <<>>
    <3>0. close \in Seq(ToDllMsg)
      <4>1. Message("CLOSE", token) \in ToDllMsg BY DEF Message, ToDllMsg, TypeOK
      <4>. QED BY <4>1
    <3>. HIDE DEF close
    <3>1. PICK h \in ReadyHomes :
             /\ Len(regs) < MaxRegs
             /\ regs' = Append(regs, [inst |-> h, via |-> "home"])
             /\ toDll' = [j \in Instance |->
                     toDll[j]
                     \o (IF j = assigned THEN close ELSE <<>>)
                     \o (IF j = h /\ h \in up
                         THEN <<Message("REGISTER", Len(regs) + 1)>> ELSE <<>>)]
      BY <1>8, <2>2 DEF Unspectate, close
    <3>2. UNCHANGED up /\ h \in Instance /\ h \in Home
      BY <1>0, <1>8, <3>1 DEF Unspectate
    <3>3. ASSUME h \in up PROVE HasRegister(toDll'[h])
      <4>. DEFINE r == <<Message("REGISTER", Len(regs) + 1)>>
                  p == IF h = assigned THEN close ELSE <<>>
                  q == toDll[h] \o p
      <4>1. r \in Seq(ToDllMsg) /\ HasRegister(r)
        <5>1. Len(regs) + 1 \in Token BY <3>1, RegistrationAssumption DEF TypeOK, Token
        <5>2. Message("REGISTER", Len(regs) + 1) \in ToDllMsg BY <5>1 DEF Message, ToDllMsg
        <5>3. r[1] = Message("REGISTER", Len(regs) + 1) /\ 1 \in DOMAIN r OBVIOUS
        <5>4. IsRegister(r[1]) BY <5>3 DEF IsRegister, Message
        <5>. QED BY <5>2, <5>3, <5>4 DEF HasRegister
      <4>2. p \in Seq(ToDllMsg) /\ toDll[h] \in Seq(ToDllMsg) BY <3>0, <3>2 DEF TypeOK
      <4>3. toDll'[h] = q \o r BY <3>1, <3>2, <3>3
      <4>. HIDE DEF p, r
      <4>4. q \in Seq(ToDllMsg) BY <4>2
      <4>. HIDE DEF q
      <4>. QED BY <4>1, <4>3, <4>4, HasRegisterKept
    <3>. QED BY <1>0, <3>1, <3>2, <3>3 DEF RegsStep
  <2>. QED BY <2>1, <2>2
<1>9. CASE SocketDisconnect BY <1>9 DEF SocketDisconnect, RegsStep
<1>10. ASSUME NEW i \in Instance, RegisterAck(i) PROVE RegsStep
  <2>1. CASE ack = 0 BY <1>1, <1>10, <2>1 DEF RegisterAck
  <2>2. CASE ack # 0
    <3>1. Registered(ack) /\ UNCHANGED up BY <1>10, <2>2 DEF RegisterAck
    <3>2. regs[ack].via \in Via
      <4>1. ack \in 1 .. Len(regs) /\ regs \in Seq([inst : Instance, via : Via])
        BY <2>2 DEF TypeOK
      <4>2. regs[ack] \in [inst : Instance, via : Via] BY <4>1, ElementOfSeq
      <4>. QED BY <4>2
    <3>3. CASE HomeOrPoll(None, timers \ {ack}, 0, ackTimer) BY <3>1, <3>3, HomeOrPollStep
    <3>. QED BY <1>1, <3>1, <3>2, <3>3 DEF Registered, Via
  <2>. QED BY <2>1, <2>2
<1>11. ASSUME NEW i \in Instance,
              \/ PlayerLeft(i) \/ DllRegister(i) \/ DllLeave(i) \/ DllClose(i)
              \/ Stop(i) \/ Down(i)
              \/ \E c \in Conn : Hello(i, c) \/ Join(i, c) \/ Quiet(i, c) \/ Reap(i, c)
       PROVE  RegsStep
  BY <1>1, <1>11 DEF PlayerLeft, DllRegister, DllLeave, DllClose, Stop, Down, Hello, Join,
                     Quiet, Reap
<1>12. CASE \/ LeaveGame \/ GhostSweep
            \/ \E m \in Mission : Invite(m)
            \/ \E h \in Home : HomeReady(h)
            \/ UNCHANGED vars
  BY <1>1, <1>12 DEF LeaveGame, GhostSweep, Invite, HomeReady, vars
<1>. QED
  BY <1>2, <1>3, <1>4, <1>5, <1>6, <1>7, <1>8, <1>9, <1>10, <1>11, <1>12 DEF Next

\* Where the client may be sent: nowhere new, or where the registration whose
\* callback runs was sent.
DestStep ==
    \/ dest' \in {dest, None}
    \/ /\ ack \in DOMAIN regs
       /\ \/ dest' = regs[ack].inst
          \/ regs[ack].via = "home" /\ dest' \in Home

\* Where it may connect: where it was sent.
AtStep == at' \in {at, <<>>} \/ \E c \in Conn : at' = <<dest, c>>

\* Every step moves the client only so.
LEMMA NextClient == TypeOK /\ [Next]_vars => DestStep /\ AtStep
<1>. SUFFICES ASSUME TypeOK, [Next]_vars PROVE DestStep /\ AtStep
  OBVIOUS
<1>. USE DEF clientVars
<1>1. CASE UNCHANGED clientVars BY <1>1 DEF DestStep, AtStep
<1>2. ASSUME NEW i \in Instance, RegisterAck(i) PROVE DestStep /\ AtStep
  <2>1. CASE ack = 0 BY <1>1, <1>2, <2>1 DEF RegisterAck
  <2>2. CASE ack # 0
    <3>1. Registered(ack) /\ at' = at BY <1>2, <2>2 DEF RegisterAck
    <3>2. ack \in DOMAIN regs /\ regs[ack].via \in Via
      <4>1. ack \in 1 .. Len(regs) /\ regs \in Seq([inst : Instance, via : Via])
        BY <2>2 DEF TypeOK
      <4>2. regs[ack] \in [inst : Instance, via : Via] BY <4>1, ElementOfSeq
      <4>. QED BY <4>1, <4>2
    <3>3. ReadyHomes \subseteq Home BY DEF ReadyHomes
    <3>4. \/ dest' = dest
          \/ dest' = regs[ack].inst
          \/ regs[ack].via = "home" /\ dest' \in Home
      BY <3>1, <3>2, <3>3 DEF Registered, Via, GoPlay
    <3>. QED BY <3>1, <3>2, <3>4 DEF DestStep, AtStep
  <2>. QED BY <2>1, <2>2
<1>3. ASSUME NEW i \in Instance, NEW c \in Conn, Hello(i, c) \/ Reap(i, c)
      PROVE  DestStep /\ AtStep
  BY <1>3 DEF Hello, Reap, DestStep, AtStep
<1>4. ASSUME NEW i \in Instance, DllLeave(i) \/ Down(i) PROVE DestStep /\ AtStep
  BY <1>4 DEF DllLeave, Down, DestStep, AtStep
<1>5. CASE LeaveGame BY <1>5 DEF LeaveGame, DestStep, AtStep
<1>6. ASSUME NEW i \in Instance,
             \/ PlayerLeft(i) \/ DllRegister(i) \/ DllClose(i) \/ Stop(i)
             \/ \E c \in Conn : Join(i, c) \/ Quiet(i, c)
      PROVE  DestStep /\ AtStep
  BY <1>1, <1>6 DEF PlayerLeft, DllRegister, DllClose, Stop, Join, Quiet
<1>7. CASE \/ SelectCharacter \/ HomePoll \/ MatchAccept
           \/ \E m \in Mission : Invite(m) \/ Spectate(m)
           \/ \E n \in RegNo : AckTimeout(n)
           \/ ChangeInstance \/ Unspectate \/ SocketDisconnect \/ GhostSweep
           \/ \E h \in Home : HomeReady(h)
           \/ UNCHANGED vars
  <2>1. UNCHANGED clientVars
    BY <1>7 DEF SelectCharacter, HomePoll, MatchAccept, Invite, Spectate, AckTimeout,
                ChangeInstance, Unspectate, SocketDisconnect, GhostSweep, HomeReady, vars
  <2>. QED BY <1>1, <2>1
<1>. QED BY <1>2, <1>3, <1>4, <1>5, <1>6, <1>7 DEF Next

\* The inductive step of SentIsRegistered.
LEMMA NextSent == TypeOK /\ SentInv /\ [Next]_vars => SentInv'
<1>. SUFFICES ASSUME TypeOK, SentInv, [Next]_vars PROVE SentInv'
  OBVIOUS
<1>0. /\ regs \in Seq([inst : Instance, via : Via]) /\ None \notin Instance
      /\ \A n \in DOMAIN regs : regs[n].inst \in Instance
  <2>1. regs \in Seq([inst : Instance, via : Via]) BY DEF TypeOK
  <2>2. \A n \in 1 .. Len(regs) : regs[n] \in [inst : Instance, via : Via]
    BY <2>1, ElementOfSeq
  <2>. QED BY <2>1, <2>2, NoneAssumption
<1>1. Unbound' BY NextUnbound DEF SentInv
<1>2. RegsStep /\ DestStep /\ AtStep BY NextRegs, NextClient
<1>3. \A i \in Instance : Expected(i) => Expected(i)'
  BY ExpectedKept DEF SentInv
<1>4. HomeRegs' /\ Asked'
  <2>1. CASE UNCHANGED regs BY <1>0, <1>3, <2>1 DEF SentInv, HomeRegs, Asked
  <2>2. CASE regs' = <<>> BY <2>2 DEF HomeRegs, Asked
  <2>3. CASE \E i \in Instance, via \in Via :
               /\ regs' = Append(regs, [inst |-> i, via |-> via])
               /\ via = "home" => i \in Home
               /\ i \in up' => HasRegister(toDll'[i])
    <3>1. PICK i \in Instance, via \in Via :
               /\ regs' = Append(regs, [inst |-> i, via |-> via])
               /\ via = "home" => i \in Home
               /\ i \in up' => HasRegister(toDll'[i])
      BY <2>3
    <3>2. Expected(i)' BY <3>1 DEF Expected, InFlight, HasRegister, IsRegister
    <3>3. ASSUME NEW n \in DOMAIN regs'
          PROVE  \/ n \in DOMAIN regs /\ regs'[n] = regs[n]
                 \/ regs'[n] = [inst |-> i, via |-> via]
      BY <1>0, <3>1, <3>3
    <3>. QED BY <1>0, <1>3, <3>1, <3>2, <3>3 DEF SentInv, HomeRegs, Asked
  <2>. QED BY <1>2, <2>1, <2>2, <2>3 DEF RegsStep
<1>5. SentIsRegistered'
  <2>. SUFFICES ASSUME OneHome, NEW i \in Instance,
                       dest' = i \/ \E c \in Conn : at' = <<i, c>>
                PROVE  Expected(i)'
    BY DEF SentIsRegistered, OneHome
  <2>1. CASE dest' = i
    <3>1. CASE dest' \in {dest, None}
      BY <1>0, <1>3, <2>1, <3>1 DEF SentInv, SentIsRegistered
    <3>2. CASE /\ ack \in DOMAIN regs
               /\ \/ dest' = regs[ack].inst
                  \/ regs[ack].via = "home" /\ dest' \in Home
      <4>1. i = regs[ack].inst BY <2>1, <3>2 DEF SentInv, HomeRegs, OneHome
      <4>. QED BY <1>3, <3>2, <4>1 DEF SentInv, Asked
    <3>. QED BY <1>2, <3>1, <3>2 DEF DestStep
  <2>2. CASE \E c \in Conn : at' = <<i, c>>
    <3>1. PICK c \in Conn : at' = <<i, c>> BY <2>2
    <3>2. CASE at' \in {at, <<>>}
      BY <1>3, <3>1, <3>2 DEF SentInv, SentIsRegistered
    <3>3. CASE \E d \in Conn : at' = <<dest, d>>
      BY <1>3, <3>1, <3>3 DEF SentInv, SentIsRegistered
    <3>. QED BY <1>2, <3>2, <3>3 DEF AtStep
  <2>. QED BY <2>1, <2>2
<1>. QED BY <1>1, <1>4, <1>5 DEF SentInv

\* With one home map, a client is only ever sent to, and only ever connects to,
\* an instance that holds its registration or has it in its queue, however many
\* registrations overlap and whichever ACK runs whichever callback.
THEOREM SentIsRegisteredAlways == Spec => []SentIsRegistered
<1>1. Init => SentInv
  <2>. SUFFICES ASSUME Init PROVE SentInv
    OBVIOUS
  <2>1. Unbound BY DEF Init, Unbound, Free
  <2>2. HomeRegs /\ Asked BY DEF Init, HomeRegs, Asked
  <2>3. SentIsRegistered BY NoneAssumption DEF Init, SentIsRegistered
  <2>. QED BY <2>1, <2>2, <2>3 DEF SentInv
<1>2. SentInv => SentIsRegistered BY DEF SentInv
<1>. QED BY <1>1, <1>2, TypeCorrect, NextSent, PTL DEF Spec
-----------------------------------------------------------------------------
(* A session that is gone.                                                  *)

\* Nothing of the control server waits on behalf of a session that is gone.
GoneInv == ~live => ack = 0 /\ timers = {} /\ polls = 0

\* The step relation of GoneStaysGone.
GoneStep ==
    ~live => /\ roster' \subseteq roster
             /\ \A i \in Instance : Len(toDll'[i]) > Len(toDll[i]) =>
                   toDll'[i][Len(toDll'[i])].type = "CLOSE"

\* Queues that keep their messages, or lose them from the front, ask nothing.
LEMMA NothingAsked ==
    ASSUME TypeOK, GoneInv, UNCHANGED <<live, ack, timers, polls>>,
           roster' \subseteq roster,
           \A i \in Instance : \/ toDll'[i] = toDll[i] \/ toDll'[i] = <<>>
                               \/ toDll[i] # <<>> /\ toDll'[i] = Tail(toDll[i])
    PROVE  GoneInv' /\ GoneStep
<1>1. ASSUME NEW i \in Instance PROVE ~(Len(toDll'[i]) > Len(toDll[i]))
  <2>1. toDll[i] \in Seq(ToDllMsg) /\ Len(toDll[i]) \in Nat BY DEF TypeOK
  <2>2. CASE toDll'[i] = toDll[i] BY <2>1, <2>2
  <2>3. CASE toDll'[i] = <<>>
    <3>1. Len(toDll'[i]) = 0 BY <2>3
    <3>. QED BY <2>1, <3>1
  <2>4. CASE toDll[i] # <<>> /\ toDll'[i] = Tail(toDll[i])
    <3>1. Len(Tail(toDll[i])) = Len(toDll[i]) - 1 BY <2>1, <2>4
    <3>. QED BY <2>1, <2>4, <3>1
  <2>. QED BY <2>2, <2>3, <2>4
<1>. QED BY <1>1 DEF GoneInv, GoneStep

\* The messages an instance reads leave its queue from the front.
LEMMA ReceiveShortens ==
    ASSUME TypeOK, NEW i \in Instance, NEW type, Receive(i, type)
    PROVE  \A j \in Instance : \/ toDll'[j] = toDll[j]
                               \/ toDll[j] # <<>> /\ toDll'[j] = Tail(toDll[j])
BY DEF Receive, TypeOK

LEMMA NextGone == TypeOK /\ GoneInv /\ [Next]_vars => GoneInv' /\ GoneStep
<1>. SUFFICES ASSUME TypeOK, GoneInv, [Next]_vars
              PROVE  GoneInv' /\ GoneStep
  OBVIOUS
<1>. USE DEF rowVars, sessionVars, ackVars, dllVars, clientVars
<1>1. ASSUME live, live' = live
      PROVE  GoneInv' /\ GoneStep
  BY <1>1 DEF GoneInv, GoneStep
<1>2. CASE SelectCharacter \/ MatchAccept \/ LeaveGame \/ ChangeInstance \/ Unspectate
  <2>1. live /\ live' = live
    BY <1>2 DEF SelectCharacter, MatchAccept, LeaveGame, ChangeInstance, Unspectate
  <2>. QED BY <1>1, <2>1
<1>3. CASE \E m \in Mission : Invite(m) \/ Spectate(m)
  <2>1. live /\ live' = live BY <1>3 DEF Invite, Spectate
  <2>. QED BY <1>1, <2>1
<1>4. CASE SocketDisconnect
  BY <1>4 DEF SocketDisconnect, GoneInv, GoneStep
<1>5. CASE HomePoll
  <2>1. live' = live /\ polls > 0 BY <1>5 DEF HomePoll
  <2>2. live BY <2>1 DEF GoneInv
  <2>. QED BY <1>1, <2>1, <2>2
<1>6. ASSUME NEW n \in RegNo, AckTimeout(n)
      PROVE  GoneInv' /\ GoneStep
  <2>1. live' = live /\ n \in timers BY <1>6 DEF AckTimeout
  <2>2. live BY <2>1 DEF GoneInv
  <2>. QED BY <1>1, <2>1, <2>2
<1>7. CASE GhostSweep
  <2>1. UNCHANGED <<live, ack, timers, polls>> /\ roster' = {}
    BY <1>7 DEF GhostSweep
  <2>2. ASSUME NEW i \in Instance, Len(toDll'[i]) > Len(toDll[i])
        PROVE  toDll'[i][Len(toDll'[i])].type = "CLOSE"
    <3>1. toDll[i] \in Seq(ToDllMsg) BY DEF TypeOK
    <3>2. toDll'[i] = IF i \in roster \cap up THEN Append(toDll[i], Message("CLOSE", 0))
                                              ELSE toDll[i]
      BY <1>7 DEF GhostSweep
    <3>3. toDll'[i] = Append(toDll[i], Message("CLOSE", 0)) BY <2>2, <3>1, <3>2
    <3>4. toDll'[i][Len(toDll'[i])] = Message("CLOSE", 0) BY <3>1, <3>3
    <3>. QED BY <3>4 DEF Message
  <2>. QED BY <2>1, <2>2 DEF GoneInv, GoneStep
<1>8. ASSUME NEW i \in Instance, RegisterAck(i)
      PROVE  GoneInv' /\ GoneStep
  <2>1. live' = live BY <1>8 DEF RegisterAck
  <2>2. CASE live BY <1>1, <2>1, <2>2
  <2>3. CASE ~live
    <3>1. ack = 0 BY <2>3 DEF GoneInv
    <3>2. UNCHANGED <<roster, ackVars, polls, toDll>>
      BY <1>8, <3>1 DEF RegisterAck
    <3>. QED BY <2>1, <3>2, NothingAsked
  <2>. QED BY <2>2, <2>3
<1>9. ASSUME NEW i \in Instance, PlayerLeft(i) \/ Stop(i)
      PROVE  GoneInv' /\ GoneStep
  <2>1. UNCHANGED <<live, ack, timers, polls, toDll>> /\ roster' \subseteq roster
    BY <1>9 DEF PlayerLeft, Stop
  <2>. QED BY <2>1, NothingAsked
<1>10. ASSUME NEW i \in Instance, DllRegister(i) \/ DllLeave(i) \/ DllClose(i)
       PROVE  GoneInv' /\ GoneStep
  <2>1. UNCHANGED <<live, ack, timers, polls, roster>>
    BY <1>10 DEF DllRegister, DllLeave, DllClose
  <2>2. PICK type \in {"REGISTER", "LEAVE", "CLOSE"} : Receive(i, type)
    BY <1>10 DEF DllRegister, DllLeave, DllClose
  <2>. QED BY <2>1, <2>2, ReceiveShortens, NothingAsked
<1>11. ASSUME NEW i \in Instance, NEW c \in Conn,
              Hello(i, c) \/ Join(i, c) \/ Quiet(i, c) \/ Reap(i, c)
       PROVE  GoneInv' /\ GoneStep
  <2>1. UNCHANGED <<live, ack, timers, polls, roster, toDll>>
    BY <1>11 DEF Hello, Join, Quiet, Reap
  <2>. QED BY <2>1, NothingAsked
<1>12. ASSUME NEW i \in Instance, Down(i)
       PROVE  GoneInv' /\ GoneStep
  <2>1. UNCHANGED <<live, ack, timers, polls>> /\ roster' \subseteq roster
    BY <1>12 DEF Down
  <2>2. toDll' = [toDll EXCEPT ![i] = <<>>] BY <1>12 DEF Down
  <2>3. \A j \in Instance : toDll'[j] = toDll[j] \/ toDll'[j] = <<>>
    BY <2>2 DEF TypeOK
  <2>. QED BY <2>1, <2>3, NothingAsked
<1>13. CASE \E h \in Home : HomeReady(h)
  <2>1. UNCHANGED <<live, ack, timers, polls, roster, toDll>>
    BY <1>13 DEF HomeReady
  <2>. QED BY <2>1, NothingAsked
<1>14. CASE UNCHANGED vars
  <2>1. UNCHANGED <<live, ack, timers, polls, roster, toDll>> BY <1>14 DEF vars
  <2>. QED BY <2>1, NothingAsked
<1>. QED
  BY <1>2, <1>3, <1>4, <1>5, <1>6, <1>7, <1>8, <1>9, <1>10, <1>11, <1>12, <1>13,
     <1>14 DEF Next

\* Once a login session is gone, no ACK, timer or poll it left behind puts it on
\* a roster or makes an instance expect it, whatever is still on its way.
THEOREM GoneForGood == Spec => GoneStaysGone
<1>1. Init => GoneInv BY DEF Init, GoneInv
<1>2. TypeOK /\ GoneInv /\ [Next]_vars => GoneInv' BY NextGone
<1>3. Spec => []GoneInv BY <1>1, <1>2, TypeCorrect, PTL DEF Spec
<1>4. TypeOK /\ GoneInv /\ [Next]_vars =>
          [~live => /\ roster' \subseteq roster
                    /\ \A i \in Instance : Len(toDll'[i]) > Len(toDll[i]) =>
                          toDll'[i][Len(toDll'[i])].type = "CLOSE"]_vars
  BY NextGone DEF GoneStep
<1>. QED BY <1>3, <1>4, TypeCorrect, PTL DEF Spec, GoneStaysGone
=============================================================================
