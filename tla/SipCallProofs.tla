---------------------------- MODULE SipCallProofs ----------------------------
(***************************************************************************)
(* For any number of BYEs and of lost datagrams and every transport: the   *)
(* types of SipCall, and that on_connected and on_hangup have their        *)
(* causes.  The invariant says of each message on its way what must have   *)
(* happened for it to be sent.                                             *)
(***************************************************************************)
EXTENDS SipCall, SequenceTheorems, TLAPS

\* What the messages on their way to a side say of the other one
MessagesHaveCause ==
    /\ "ACK" \in ToSet(net["B"]) => connected["A"]
    /\ "200 INVITE" \in ToSet(net["B"]) => connected["A"]
    /\ "ACK" \in ToSet(net["A"]) => answer # "none"
    /\ "200 INVITE" \in ToSet(net["A"]) => answer # "none"
    /\ "603" \in ToSet(net["A"]) => answer = "no"
    /\ "603" \notin ToSet(net["B"])
    /\ "BYE" \in ToSet(net["A"]) => stopping["B"] # "no"
    /\ "eof" \in ToSet(net["A"]) => stopping["B"] # "no"
    /\ "BYE" \in ToSet(net["B"]) => stopping["A"] # "no"
    /\ "eof" \in ToSet(net["B"]) => stopping["A"] # "no"

IInv ==
    /\ TypeOK /\ MessagesHaveCause
    /\ CallerConnectsFirst /\ ConnectedIsDecided /\ HangupHasCause

-----------------------------------------------------------------------------
(* Sequences of messages                                                   *)

\* A queue with something added holds nothing else.
LEMMA ConcatElements ==
    ASSUME NEW s \in Seq(Messages), NEW t \in Seq(Messages)
    PROVE  s \o t \in Seq(Messages) /\ ToSet(s \o t) \subseteq ToSet(s) \union ToSet(t)
BY DEF ToSet

\* A part of a queue holds nothing that the queue does not.
LEMMA SubSeqElements ==
    ASSUME NEW s \in Seq(Messages), NEW a \in 1..Len(s)+1, NEW b \in 0..Len(s)
    PROVE  SubSeq(s, a, b) \in Seq(Messages) /\ ToSet(SubSeq(s, a, b)) \subseteq ToSet(s)
<1>1. SubSeq(s, a, b) \in Seq(Messages)
  BY SubSeqProperties
<1>2. ASSUME NEW i \in DOMAIN SubSeq(s, a, b)
      PROVE  SubSeq(s, a, b)[i] \in ToSet(s)
  BY <1>1, SubSeqProperties DEF ToSet
<1> QED
  BY <1>1, <1>2 DEF ToSet

\* Nor does a queue from which a message was taken.
LEMMA RemoveAtElements ==
    ASSUME NEW s \in Seq(Messages), NEW i \in DOMAIN s
    PROVE  RemoveAt(s, i) \in Seq(Messages) /\ ToSet(RemoveAt(s, i)) \subseteq ToSet(s)
<1>1. i - 1 \in 0..Len(s) /\ i + 1 \in 1..Len(s)+1 /\ Len(s) \in 0..Len(s) /\ 1 \in 1..Len(s)+1
  OBVIOUS
<1> DEFINE a == SubSeq(s, 1, i - 1)
           b == SubSeq(s, i + 1, Len(s))
<1>2. a \in Seq(Messages) /\ ToSet(a) \subseteq ToSet(s)
  BY <1>1, SubSeqElements
<1>3. b \in Seq(Messages) /\ ToSet(b) \subseteq ToSet(s)
  BY <1>1, SubSeqElements
<1>4. RemoveAt(s, i) = a \o b
  BY DEF RemoveAt
<1> HIDE DEF a, b
<1>5. a \o b \in Seq(Messages) /\ ToSet(a \o b) \subseteq ToSet(a) \union ToSet(b)
  BY <1>2, <1>3, ConcatElements
<1> QED
  BY <1>2, <1>3, <1>4, <1>5, Zenon

\* send_message() adds no more than the message to what the peer will read.
LEMMA SentElements ==
    ASSUME TypeOK, NEW e \in Sides, NEW msgs \in Seq(Messages)
    PROVE  /\ Sent(e, msgs) \in [Sides -> Seq(Messages)]
           /\ Sent(e, msgs)[e] = net[e]
           /\ ToSet(Sent(e, msgs)[Peer(e)]) \subseteq ToSet(net[Peer(e)]) \union ToSet(msgs)
<1>1. Peer(e) \in Sides /\ Peer(e) # e /\ net[Peer(e)] \in Seq(Messages)
  BY DEF TypeOK, Sides, Peer
<1>2. <<>> \in Seq(Messages) /\ ToSet(<<>>) = {}
  BY DEF ToSet
<1> DEFINE ms == IF link THEN msgs ELSE <<>>
<1>3. /\ net[Peer(e)] \o ms \in Seq(Messages)
      /\ ToSet(net[Peer(e)] \o ms) \subseteq ToSet(net[Peer(e)]) \union ToSet(msgs)
  BY <1>1, <1>2, ConcatElements
<1>4. Sent(e, msgs) = [net EXCEPT ![Peer(e)] = net[Peer(e)] \o ms]
  BY DEF Sent
<1> HIDE DEF ms
<1> QED
  BY <1>1, <1>3, <1>4 DEF TypeOK

\* A step of the read handler takes its message away and adds no more than its answer.
LEMMA TakenElements ==
    ASSUME TypeOK, NEW e \in Sides, NEW i \in DOMAIN net[e], NEW msgs \in Seq(Messages)
    PROVE  /\ Taken(e, i, msgs) \in [Sides -> Seq(Messages)]
           /\ ToSet(Taken(e, i, msgs)[e]) \subseteq ToSet(net[e])
           /\ ToSet(Taken(e, i, msgs)[Peer(e)]) \subseteq ToSet(net[Peer(e)]) \union ToSet(msgs)
<1>1. Peer(e) \in Sides /\ Peer(e) # e /\ net[e] \in Seq(Messages)
  BY DEF TypeOK, Sides, Peer
<1>2. RemoveAt(net[e], i) \in Seq(Messages) /\ ToSet(RemoveAt(net[e], i)) \subseteq ToSet(net[e])
  BY <1>1, RemoveAtElements
<1> DEFINE sent == Sent(e, msgs)
           rest == RemoveAt(net[e], i)
<1>3. /\ sent \in [Sides -> Seq(Messages)] /\ sent[e] = net[e]
      /\ ToSet(sent[Peer(e)]) \subseteq ToSet(net[Peer(e)]) \union ToSet(msgs)
  BY SentElements
<1>4. Taken(e, i, msgs) = [sent EXCEPT ![e] = rest]
  BY <1>3 DEF Taken
<1> HIDE DEF sent, rest
<1>5. /\ [sent EXCEPT ![e] = rest] \in [Sides -> Seq(Messages)]
      /\ [sent EXCEPT ![e] = rest][e] = rest
      /\ [sent EXCEPT ![e] = rest][Peer(e)] = sent[Peer(e)]
  BY <1>1, <1>2, <1>3 DEF rest
<1> QED
  BY <1>2, <1>3, <1>4, <1>5 DEF rest

\* The messages that one step sends.
LEMMA Literals ==
    /\ \A m \in Messages : <<m>> \in Seq(Messages) /\ ToSet(<<m>>) = {m}
    /\ <<>> \in Seq(Messages) /\ ToSet(<<>>) = {}
    /\ <<"200 INVITE", "ACK">> \in Seq(Messages)
    /\ ToSet(<<"200 INVITE", "ACK">>) = {"200 INVITE", "ACK"}
<1>1. ASSUME NEW m \in Messages PROVE <<m>> \in Seq(Messages) /\ ToSet(<<m>>) = {m}
  <2>1. DOMAIN <<m>> = {1} /\ <<m>>[1] = m
    OBVIOUS
  <2> QED
    BY <2>1 DEF ToSet
<1>2. <<>> \in Seq(Messages) /\ ToSet(<<>>) = {}
  BY DEF ToSet
<1>3. <<"200 INVITE", "ACK">> \in Seq(Messages)
  BY DEF Messages
<1>4. ToSet(<<"200 INVITE", "ACK">>) = {"200 INVITE", "ACK"}
  <2> DEFINE s == <<"200 INVITE", "ACK">>
  <2>1. DOMAIN s = {1, 2} /\ s[1] = "200 INVITE" /\ s[2] = "ACK"
    OBVIOUS
  <2> HIDE DEF s
  <2>2. ToSet(s) = {"200 INVITE", "ACK"}
    BY <2>1 DEF ToSet
  <2> QED
    BY <2>2 DEF s
<1> QED
  BY <1>1, <1>2, <1>3, <1>4

\* There are two sides, each the peer of the other.
LEMMA Peers ==
    /\ Sides = {"A", "B"} /\ Peer("A") = "B" /\ Peer("B") = "A"
    /\ \A e \in Sides : Peer(e) \in Sides /\ Peer(e) # e /\ Peer(Peer(e)) = e
BY DEF Sides, Peer

-----------------------------------------------------------------------------
(* The initial state and the steps                                         *)

\* Before the call nothing has happened and nothing is on its way.
LEMMA InitIInv == Init => IInv
<1> SUFFICES ASSUME Init PROVE IInv
  OBVIOUS
<1>1. TypeOK
  <2>1. net \in [Sides -> Seq(Messages)]
    BY Literals DEF Init, All
  <2>2. lost \in 0..MaxLoss /\ byes \in [Sides -> 0..MaxByes]
    BY BoundAssumption DEF Init, All
  <2>3. /\ listed \in [Sides -> BOOLEAN] /\ active \in [Sides -> BOOLEAN] /\ con \in [Sides -> BOOLEAN]
        /\ gotAck \in [Sides -> BOOLEAN] /\ gotBye \in [Sides -> BOOLEAN]
        /\ connected \in [Sides -> BOOLEAN]
        /\ media \in [Sides -> BOOLEAN] /\ starting \in [Sides -> BOOLEAN]
    BY DEF Init, All
  <2> QED
    BY <2>1, <2>2, <2>3 DEF Init, All, TypeOK
<1>2. MessagesHaveCause
  BY Literals, Peers DEF Init, All, MessagesHaveCause
<1>3. CallerConnectsFirst /\ ConnectedIsDecided /\ HangupHasCause
  BY Peers DEF Init, All, CallerConnectsFirst, ConnectedIsDecided, HangupHasCause
<1> QED
  BY <1>1, <1>2, <1>3 DEF IInv

\* In a step only a is sent to A and only b to B, no cause is taken back, and what is
\* sent has its cause.
SentWithCause(a, b) ==
    /\ ToSet(net'["A"]) \subseteq ToSet(net["A"]) \union a
    /\ ToSet(net'["B"]) \subseteq ToSet(net["B"]) \union b
    /\ connected["A"] => connected'["A"]
    /\ answer' = answer \/ (answer = "none" /\ answer' \in {"yes", "no"})
    /\ stopping["A"] # "no" => stopping'["A"] # "no"
    /\ stopping["B"] # "no" => stopping'["B"] # "no"
    /\ "ACK" \in b \/ "200 INVITE" \in b => connected'["A"]
    /\ "ACK" \in a \/ "200 INVITE" \in a => answer' # "none"
    /\ "603" \in a => answer' = "no"
    /\ "603" \notin b
    /\ "BYE" \in a \/ "eof" \in a => stopping'["B"] # "no"
    /\ "BYE" \in b \/ "eof" \in b => stopping'["A"] # "no"

\* A step that sends only messages that have their cause, and undoes no cause, leaves every
\* message its cause.
LEMMA CauseStep ==
    ASSUME MessagesHaveCause, NEW a, NEW b, SentWithCause(a, b)
    PROVE  MessagesHaveCause'
<1> USE DEF SentWithCause
<1>1. ASSUME "ACK" \in ToSet(net'["B"]) \/ "200 INVITE" \in ToSet(net'["B"])
      PROVE  connected'["A"]
  BY <1>1, Zenon DEF MessagesHaveCause
<1>2. ASSUME "ACK" \in ToSet(net'["A"]) \/ "200 INVITE" \in ToSet(net'["A"])
      PROVE  answer' # "none"
  BY <1>2 DEF MessagesHaveCause
<1>3. ("603" \in ToSet(net'["A"]) => answer' = "no") /\ "603" \notin ToSet(net'["B"])
  BY DEF MessagesHaveCause
<1>4. ASSUME "BYE" \in ToSet(net'["A"]) \/ "eof" \in ToSet(net'["A"])
      PROVE  stopping'["B"] # "no"
  BY <1>4 DEF MessagesHaveCause
<1>5. ASSUME "BYE" \in ToSet(net'["B"]) \/ "eof" \in ToSet(net'["B"])
      PROVE  stopping'["A"] # "no"
  BY <1>5 DEF MessagesHaveCause
<1> QED
  BY <1>1, <1>2, <1>3, <1>4, <1>5, Zenon DEF MessagesHaveCause

\* A step that sends nothing that needs a cause and takes no cause back
LEMMA QuietStep ==
    ASSUME IInv,
           \A e \in Sides : ToSet(net'[e]) \subseteq ToSet(net[e]) \union {"INVITE", "200 BYE"},
           connected' = connected, answer' = answer, told' = told,
           \A e \in Sides : stopping[e] # "no" => stopping'[e] # "no"
    PROVE  MessagesHaveCause' /\ CallerConnectsFirst' /\ ConnectedIsDecided' /\ HangupHasCause'
<1> DEFINE few == {"INVITE", "200 BYE"}
<1>1. /\ ToSet(net'["A"]) \subseteq ToSet(net["A"]) \union few
      /\ ToSet(net'["B"]) \subseteq ToSet(net["B"]) \union few
      /\ stopping["A"] # "no" => stopping'["A"] # "no"
      /\ stopping["B"] # "no" => stopping'["B"] # "no"
  BY Peers
<1>2. {"ACK", "200 INVITE", "603", "BYE", "eof"} \intersect few = {}
  OBVIOUS
<1> HIDE DEF few
<1>s. SentWithCause(few, few)
  BY <1>1, <1>2 DEF SentWithCause
<1>3. MessagesHaveCause'
  BY <1>s, CauseStep DEF IInv
<1>4. CallerConnectsFirst' /\ ConnectedIsDecided'
  BY DEF IInv, CallerConnectsFirst, ConnectedIsDecided
<1>5. HangupHasCause'
  BY Peers DEF IInv, HangupHasCause
<1> QED
  BY <1>3, <1>4, <1>5

\* The network loses a datagram.
LEMMA LoseIInv ==
    ASSUME IInv, Lose
    PROVE  IInv'
<1> USE DEF IInv
<1>1. PICK e \in Sides : \E i \in DOMAIN net[e] : net' = [net EXCEPT ![e] = RemoveAt(@, i)]
  BY DEF Lose
<1>2. PICK i \in DOMAIN net[e] : net' = [net EXCEPT ![e] = RemoveAt(net[e], i)]
  BY <1>1
<1>3. net[e] \in Seq(Messages)
  BY DEF TypeOK
<1>4. RemoveAt(net[e], i) \in Seq(Messages) /\ ToSet(RemoveAt(net[e], i)) \subseteq ToSet(net[e])
  BY <1>3, RemoveAtElements
<1> DEFINE rest == RemoveAt(net[e], i)
<1>5. net' = [net EXCEPT ![e] = rest] /\ rest \in Seq(Messages) /\ ToSet(rest) \subseteq ToSet(net[e])
  BY <1>2, <1>4
<1> HIDE DEF rest
<1>6. net' \in [Sides -> Seq(Messages)] /\ \A x \in Sides : ToSet(net'[x]) \subseteq ToSet(net[x])
  BY <1>5 DEF TypeOK
<1>7. TypeOK'
  BY <1>6, BoundAssumption DEF TypeOK, Lose, signals, stopper
<1> QED
  BY <1>6, <1>7, QuietStep DEF Lose, signals, stopper

\* start() at A sends the INVITE.
LEMMA CallIInv ==
    ASSUME IInv, Call
    PROVE  IInv'
<1> USE DEF IInv
<1>1. /\ net' \in [Sides -> Seq(Messages)]
      /\ \A x \in Sides : ToSet(net'[x]) \subseteq ToSet(net[x]) \union {"INVITE"}
  <2>1. CASE UNCHANGED net
    BY <2>1 DEF TypeOK
  <2>2. CASE net' = [net EXCEPT !["B"] = Append(@, "INVITE")]
    <3>1. net["B"] \in Seq(Messages) /\ "INVITE" \in Messages
      BY Peers DEF TypeOK, Messages
    <3> DEFINE more == Append(net["B"], "INVITE")
    <3>2. more \in Seq(Messages) /\ ToSet(more) \subseteq ToSet(net["B"]) \union {"INVITE"}
      BY <3>1 DEF ToSet
    <3>3. net' = [net EXCEPT !["B"] = more]
      BY <2>2
    <3> HIDE DEF more
    <3> QED
      BY <3>2, <3>3, Peers DEF TypeOK
  <2> QED
    BY <2>1, <2>2 DEF Call
<1>2. TypeOK'
  BY <1>1 DEF TypeOK, Call, signals
<1>3. \A e \in Sides : stopping[e] # "no" => stopping'[e] # "no"
  BY Peers DEF TypeOK, Call
<1>4. connected' = connected /\ answer' = answer /\ told' = told
  BY DEF Call, signals
<1>5. \A x \in Sides : ToSet(net'[x]) \subseteq ToSet(net[x]) \union {"INVITE", "200 BYE"}
  BY <1>1
<1> QED
  BY <1>2, <1>3, <1>4, <1>5, QuietStep

\* answer() at B sends the 200 and remembers that it has answered.
LEMMA AnswerIInv ==
    ASSUME IInv, Answer
    PROVE  IInv'
<1> USE DEF IInv
<1>1. "B" \in Sides /\ Peer("B") = "A" /\ <<"200 INVITE">> \in Seq(Messages) /\ ToSet(<<"200 INVITE">>) = {"200 INVITE"}
  BY Peers, Literals DEF Messages
<1> DEFINE more == Sent("B", <<"200 INVITE">>)
<1>2. /\ more \in [Sides -> Seq(Messages)] /\ more["B"] = net["B"]
      /\ ToSet(more["A"]) \subseteq ToSet(net["A"]) \union {"200 INVITE"}
  BY <1>1, SentElements
<1>3. net' = more
  BY DEF Answer
<1> HIDE DEF more
<1>4. TypeOK'
  BY <1>1, <1>2, <1>3 DEF TypeOK, Answer, network, signals, stopper
<1>5. MessagesHaveCause'
  <2>1. UNCHANGED <<connected, stopping>> /\ answer = "none" /\ answer' = "yes"
    BY DEF Answer, signals, stopper
  <2>2. ToSet(net'["A"]) \subseteq ToSet(net["A"]) \union {"200 INVITE"} /\ ToSet(net'["B"]) \subseteq ToSet(net["B"]) \union {}
    BY <1>2, <1>3
  <2>s. SentWithCause({"200 INVITE"}, {})
    BY <2>1, <2>2 DEF SentWithCause
  <2> QED
    BY <2>s, CauseStep
<1> QED
  BY <1>4, <1>5, Peers DEF CallerConnectsFirst, ConnectedIsDecided, HangupHasCause, Answer, signals, stopper

\* refuse() at B sends the 603.
LEMMA RefuseIInv ==
    ASSUME IInv, Refuse
    PROVE  IInv'
<1> USE DEF IInv
<1>1. "B" \in Sides /\ Peer("B") = "A" /\ <<"603">> \in Seq(Messages) /\ ToSet(<<"603">>) = {"603"}
  BY Peers, Literals DEF Messages
<1> DEFINE more == Sent("B", <<"603">>)
<1>2. /\ more \in [Sides -> Seq(Messages)] /\ more["B"] = net["B"]
      /\ ToSet(more["A"]) \subseteq ToSet(net["A"]) \union {"603"}
  BY <1>1, SentElements
<1>3. net' = more
  BY DEF Refuse
<1> HIDE DEF more
<1>4. TypeOK'
  BY <1>1, <1>2, <1>3 DEF TypeOK, Refuse, network, signals, stopper
<1>5. MessagesHaveCause'
  <2>1. UNCHANGED <<connected, stopping>> /\ answer = "none" /\ answer' = "no"
    BY DEF Refuse, signals, stopper
  <2>2. ToSet(net'["A"]) \subseteq ToSet(net["A"]) \union {"603"} /\ ToSet(net'["B"]) \subseteq ToSet(net["B"]) \union {}
    BY <1>2, <1>3
  <2>s. SentWithCause({"603"}, {})
    BY <2>1, <2>2 DEF SentWithCause
  <2> QED
    BY <2>s, CauseStep
<1> QED
  BY <1>4, <1>5, Peers DEF CallerConnectsFirst, ConnectedIsDecided, HangupHasCause, Refuse, signals, stopper

\* rtp_.start() at the end of answer() and of the response's handler.
LEMMA StartMediaIInv ==
    ASSUME IInv, NEW e \in Sides, StartMedia(e)
    PROVE  IInv'
<1> USE DEF IInv
<1>1. TypeOK'
  BY DEF TypeOK, StartMedia, network, signals, stopper
<1> QED
  BY <1>1, QuietStep DEF StartMedia, network, signals, stopper

\* stop() begins,
LEMMA StopIInv ==
    ASSUME IInv, NEW e \in Sides, Stop(e)
    PROVE  IInv'
<1> USE DEF IInv
<1>1. TypeOK'
  BY DEF TypeOK, Stop, network, signals
<1>2. \A x \in Sides : stopping[x] # "no" => stopping'[x] # "no"
  BY DEF TypeOK, Stop
<1> QED
  BY <1>1, <1>2, QuietStep DEF Stop, network, signals

\* sends a BYE as often as it may,
LEMMA ByeIInv ==
    ASSUME IInv, NEW e \in Sides, Bye(e)
    PROVE  IInv'
<1> USE DEF IInv
<1>1. <<"BYE">> \in Seq(Messages) /\ ToSet(<<"BYE">>) = {"BYE"}
  BY Literals DEF Messages
<1> DEFINE more == Sent(e, <<"BYE">>)
<1>2. /\ more \in [Sides -> Seq(Messages)] /\ more[e] = net[e]
      /\ ToSet(more[Peer(e)]) \subseteq ToSet(net[Peer(e)]) \union {"BYE"}
  BY <1>1, SentElements
<1>3. net' = more /\ stopping[e] = "bye" /\ stopping' = stopping
  BY DEF Bye
<1> HIDE DEF more
<1>4. TypeOK'
  <2>1. byes' \in [Sides -> 0..MaxByes]
    BY BoundAssumption DEF TypeOK, Bye
  <2> QED
    BY <1>2, <1>3, <2>1 DEF TypeOK, Bye, network, signals
<1>5. MessagesHaveCause'
  <2>1. UNCHANGED <<connected, stopping, answer>>
    BY DEF Bye, signals
  <2>2. CASE e = "A"
    <3>1. ToSet(net'["A"]) \subseteq ToSet(net["A"]) \union {} /\ ToSet(net'["B"]) \subseteq ToSet(net["B"]) \union {"BYE"}
      BY <1>2, <1>3, <2>2, Peers
    <3>s. SentWithCause({}, {"BYE"})
      BY <1>3, <2>1, <2>2, <3>1 DEF SentWithCause
    <3> QED
      BY <3>s, CauseStep
  <2>3. CASE e = "B"
    <3>1. ToSet(net'["A"]) \subseteq ToSet(net["A"]) \union {"BYE"} /\ ToSet(net'["B"]) \subseteq ToSet(net["B"]) \union {}
      BY <1>2, <1>3, <2>3, Peers
    <3>s. SentWithCause({"BYE"}, {})
      BY <1>3, <2>1, <2>3, <3>1 DEF SentWithCause
    <3> QED
      BY <3>s, CauseStep
  <2> QED
    BY <2>2, <2>3, Peers
<1> QED
  BY <1>3, <1>4, <1>5, Peers DEF CallerConnectsFirst, ConnectedIsDecided, HangupHasCause, Bye, signals

\* and takes the call out of the list.
LEMMA DestroyIInv ==
    ASSUME IInv, NEW e \in Sides, Destroy(e)
    PROVE  IInv'
<1> USE DEF IInv
<1>1. /\ link' \in BOOLEAN /\ net' \in [Sides -> Seq(Messages)]
      /\ ToSet(net'[e]) \subseteq ToSet(net[e])
      /\ ToSet(net'[Peer(e)]) \subseteq ToSet(net[Peer(e)]) \union {"eof"}
  <2>1. CASE UNCHANGED <<link, net>>
    BY <2>1 DEF TypeOK
  <2>2. CASE /\ link' = FALSE
             /\ \E n \in 0..Len(net[Peer(e)]) :
                  net' = [net EXCEPT ![e] = <<>>, ![Peer(e)] = Append(SubSeq(@, 1, n), "eof")]
    <3>1. PICK n \in 0..Len(net[Peer(e)]) :
            net' = [net EXCEPT ![e] = <<>>, ![Peer(e)] = Append(SubSeq(@, 1, n), "eof")]
      BY <2>2
    <3>a. net[Peer(e)] \in Seq(Messages)
      BY Peers DEF TypeOK
    <3>2. net[Peer(e)] \in Seq(Messages) /\ 1 \in 1..Len(net[Peer(e)])+1 /\ "eof" \in Messages
      <4>1. Len(net[Peer(e)]) \in Nat
        BY <3>a
      <4>2. "eof" \in Messages
        BY DEF Messages
      <4> QED
        BY <3>a, <4>1, <4>2
    <3> DEFINE cut == SubSeq(net[Peer(e)], 1, n)
               more == Append(cut, "eof")
    <3>3. cut \in Seq(Messages) /\ ToSet(cut) \subseteq ToSet(net[Peer(e)])
      BY <3>2, SubSeqElements
    <3>4. net' = [net EXCEPT ![e] = <<>>, ![Peer(e)] = more]
      BY <3>1, Peers DEF TypeOK
    <3> HIDE DEF cut
    <3>5. more \in Seq(Messages) /\ ToSet(more) \subseteq ToSet(cut) \union {"eof"}
      BY <3>2, <3>3 DEF ToSet
    <3> HIDE DEF more
    <3>6. net' \in [Sides -> Seq(Messages)] /\ net'[e] = <<>> /\ net'[Peer(e)] = more
      BY <3>4, <3>5, Peers, Literals DEF TypeOK
    <3> QED
      BY <2>2, <3>3, <3>5, <3>6, Literals
  <2> QED
    BY <2>1, <2>2 DEF Destroy, Closed
<1>2. stopping' = [stopping EXCEPT ![e] = "done"]
  BY DEF Destroy
<1>3. TypeOK'
  BY <1>1, <1>2 DEF TypeOK, Destroy, signals
<1>4. MessagesHaveCause'
  <2>1. UNCHANGED <<connected, answer>>
    BY DEF Destroy, signals
  <2>2. /\ stopping["A"] # "no" => stopping'["A"] # "no"
        /\ stopping["B"] # "no" => stopping'["B"] # "no"
        /\ stopping'[e] # "no"
    BY <1>2, Peers DEF TypeOK
  <2>3. CASE e = "A"
    <3>1. ToSet(net'["A"]) \subseteq ToSet(net["A"]) \union {} /\ ToSet(net'["B"]) \subseteq ToSet(net["B"]) \union {"eof"}
      BY <1>1, <2>3, Peers
    <3>s. SentWithCause({}, {"eof"})
      BY <2>1, <2>2, <2>3, <3>1 DEF SentWithCause
    <3> QED
      BY <3>s, CauseStep
  <2>4. CASE e = "B"
    <3>1. ToSet(net'["A"]) \subseteq ToSet(net["A"]) \union {"eof"} /\ ToSet(net'["B"]) \subseteq ToSet(net["B"]) \union {}
      BY <1>1, <2>4, Peers
    <3>s. SentWithCause({"eof"}, {})
      BY <2>1, <2>2, <2>4, <3>1 DEF SentWithCause
    <3> QED
      BY <3>s, CauseStep
  <2> QED
    BY <2>3, <2>4, Peers
<1> QED
  BY <1>2, <1>3, <1>4, Peers DEF TypeOK, CallerConnectsFirst, ConnectedIsDecided, HangupHasCause, Destroy, signals

\* The endpoint makes a call of an INVITE.
LEMMA OnInviteIInv ==
    ASSUME IInv, NEW i, OnInvite(i)
    PROVE  IInv'
<1> USE DEF IInv
<1>1. i \in DOMAIN net["B"]
  BY DEF OnInvite, Reads
<1> DEFINE msgs == <<>>
<1>2. msgs \in Seq(Messages) /\ ToSet(msgs) \subseteq {"200 BYE"}
  BY Literals
<1>3. net' = Taken("B", i, msgs)
  BY DEF OnInvite
<1> HIDE DEF msgs
<1> DEFINE more == Taken("B", i, msgs)
<1>4. /\ more \in [Sides -> Seq(Messages)]
      /\ ToSet(more["B"]) \subseteq ToSet(net["B"])
      /\ ToSet(more[Peer("B")]) \subseteq ToSet(net[Peer("B")]) \union ToSet(msgs)
  BY <1>1, <1>2, TakenElements, Peers
<1>5. net' = more
  BY <1>3
<1> HIDE DEF more
<1>6. TypeOK'
  BY <1>4, <1>5, Peers DEF TypeOK, OnInvite, network, signals
<1>7. \A x \in Sides : ToSet(net'[x]) \subseteq ToSet(net[x]) \union {"INVITE", "200 BYE"}
  BY <1>2, <1>4, <1>5, Peers
<1>8. \A x \in Sides : stopping[x] # "no" => stopping'[x] # "no"
  BY Peers DEF TypeOK, OnInvite
<1> QED
  BY <1>6, <1>7, <1>8, QuietStep DEF OnInvite, network, signals

\* A message for a call that is no longer listed.
LEMMA OnUnknownIInv ==
    ASSUME IInv, NEW e \in Sides, NEW i, OnUnknown(e, i)
    PROVE  IInv'
<1> USE DEF IInv
<1>1. i \in DOMAIN net[e]
  BY DEF OnUnknown, Reads
<1> DEFINE msgs == <<>>
<1>2. msgs \in Seq(Messages) /\ ToSet(msgs) \subseteq {"200 BYE"}
  BY Literals
<1>3. net' = Taken(e, i, msgs)
  BY DEF OnUnknown
<1> HIDE DEF msgs
<1> DEFINE more == Taken(e, i, msgs)
<1>4. /\ more \in [Sides -> Seq(Messages)]
      /\ ToSet(more[e]) \subseteq ToSet(net[e])
      /\ ToSet(more[Peer(e)]) \subseteq ToSet(net[Peer(e)]) \union ToSet(msgs)
  BY <1>1, <1>2, TakenElements, Peers
<1>5. net' = more
  BY <1>3
<1> HIDE DEF more
<1>6. TypeOK'
  BY <1>4, <1>5, Peers DEF TypeOK, OnUnknown, network, signals, stopper
<1>7. \A x \in Sides : ToSet(net'[x]) \subseteq ToSet(net[x]) \union {"INVITE", "200 BYE"}
  BY <1>2, <1>4, <1>5, Peers
<1> QED
  BY <1>6, <1>7, QuietStep DEF OnUnknown, network, signals, stopper

\* The 200 connects A, which sends the ACK.
LEMMA OnAnswerIInv ==
    ASSUME IInv, NEW e \in Sides, NEW i, OnAnswer(e, i)
    PROVE  IInv'
<1> USE DEF IInv
<1>1. i \in DOMAIN net[e] /\ "200 INVITE" \in ToSet(net[e])
  BY DEF OnAnswer, Reads, ToSet
<1> DEFINE msgs == IF con[e] THEN <<"ACK">> ELSE <<>>
<1>2. msgs \in Seq(Messages) /\ ToSet(msgs) \subseteq IF con[e] THEN {"ACK"} ELSE {}
  BY Literals DEF Messages
<1>3. net' = Taken(e, i, msgs)
  BY DEF OnAnswer
<1> HIDE DEF msgs
<1> DEFINE more == Taken(e, i, msgs)
<1>4. /\ more \in [Sides -> Seq(Messages)]
      /\ ToSet(more[e]) \subseteq ToSet(net[e])
      /\ ToSet(more[Peer(e)]) \subseteq ToSet(net[Peer(e)]) \union ToSet(msgs)
  BY <1>1, <1>2, TakenElements, Peers
<1>5. net' = more
  BY <1>3
<1> HIDE DEF more
<1>6. TypeOK'
  BY <1>4, <1>5, Peers DEF TypeOK, OnAnswer, network, signals, stopper, Ack
<1>7. MessagesHaveCause'
  <2> DEFINE new == ToSet(msgs)
  <2>1. UNCHANGED <<stopping, answer>>
    BY DEF OnAnswer, stopper
  <2>2. connected["A"] => connected'["A"]
    BY Peers DEF TypeOK, OnAnswer, signals, Ack
  <2>3. new \subseteq IF con[e] THEN {"ACK"} ELSE {}
    BY <1>2
  <2> HIDE DEF new
  <2>4. "603" \notin new /\ "BYE" \notin new /\ "eof" \notin new /\ (new # {} => con[e])
    BY <2>3
  <2>5. CASE e = "A"
    <3>1. ToSet(net'["A"]) \subseteq ToSet(net["A"]) \union {} /\ ToSet(net'["B"]) \subseteq ToSet(net["B"]) \union new
      BY <1>4, <1>5, <2>5, Peers DEF new
    <3>2. new # {} => connected'["A"]
      BY <2>4, <2>5, Peers DEF TypeOK, OnAnswer, Ack
    <3>s. SentWithCause({}, new)
      BY <2>1, <2>2, <2>4, <3>1, <3>2 DEF SentWithCause
    <3> QED
      BY <3>s, CauseStep
  <2>6. CASE e = "B"
    <3>1. ToSet(net'["A"]) \subseteq ToSet(net["A"]) \union new /\ ToSet(net'["B"]) \subseteq ToSet(net["B"]) \union {}
      BY <1>4, <1>5, <2>6, Peers DEF new
    <3>2. answer # "none"
      BY <1>1, <2>6, Peers DEF MessagesHaveCause, ConnectedIsDecided
    <3>s. SentWithCause(new, {})
      BY <2>1, <2>2, <2>4, <3>1, <3>2 DEF SentWithCause
    <3> QED
      BY <3>s, CauseStep
  <2> QED
    BY <2>5, <2>6, Peers
<1>8. CallerConnectsFirst' /\ ConnectedIsDecided'
  BY <1>1, Peers DEF TypeOK, MessagesHaveCause, CallerConnectsFirst, ConnectedIsDecided, OnAnswer, network, signals, stopper, Ack
<1>9. HangupHasCause'
  BY <1>1, Peers DEF TypeOK, MessagesHaveCause, HangupHasCause, OnAnswer, network, signals, stopper, Ack
<1> QED
  BY <1>6, <1>7, <1>8, <1>9

\* The ACK connects B.
LEMMA OnAckIInv ==
    ASSUME IInv, NEW e \in Sides, NEW i, OnAck(e, i)
    PROVE  IInv'
<1> USE DEF IInv
<1>1. i \in DOMAIN net[e] /\ "ACK" \in ToSet(net[e])
  BY DEF OnAck, Reads, ToSet
<1> DEFINE msgs == <<>>
<1>2. msgs \in Seq(Messages) /\ ToSet(msgs) \subseteq {"200 BYE"}
  BY Literals
<1>3. net' = Taken(e, i, msgs)
  BY DEF OnAck
<1> HIDE DEF msgs
<1> DEFINE more == Taken(e, i, msgs)
<1>4. /\ more \in [Sides -> Seq(Messages)]
      /\ ToSet(more[e]) \subseteq ToSet(net[e])
      /\ ToSet(more[Peer(e)]) \subseteq ToSet(net[Peer(e)]) \union ToSet(msgs)
  BY <1>1, <1>2, TakenElements, Peers
<1>5. net' = more
  BY <1>3
<1> HIDE DEF more
<1>6. TypeOK'
  BY <1>4, <1>5, Peers DEF TypeOK, OnAck, network, signals, stopper
<1>7. MessagesHaveCause'
  <2> DEFINE new == ToSet(msgs)
  <2>1. UNCHANGED <<stopping, answer>>
    BY DEF OnAck, stopper
  <2>2. connected["A"] => connected'["A"]
    BY Peers DEF TypeOK, OnAck, signals
  <2>3. new \subseteq {"200 BYE"}
    BY <1>2
  <2> HIDE DEF new
  <2>4. ToSet(net'["A"]) \subseteq ToSet(net["A"]) \union {"200 BYE"} /\ ToSet(net'["B"]) \subseteq ToSet(net["B"]) \union {"200 BYE"}
    BY <1>4, <1>5, <2>3, Peers DEF new
  <2>s. SentWithCause({"200 BYE"}, {"200 BYE"})
    BY <2>1, <2>2, <2>4 DEF SentWithCause
  <2> QED
    BY <2>s, CauseStep
<1>8. CallerConnectsFirst' /\ ConnectedIsDecided'
  BY <1>1, Peers DEF TypeOK, MessagesHaveCause, CallerConnectsFirst, ConnectedIsDecided, OnAck, network, signals, stopper
<1>9. HangupHasCause'
  BY <1>1, Peers DEF TypeOK, MessagesHaveCause, HangupHasCause, OnAck, network, signals, stopper
<1> QED
  BY <1>6, <1>7, <1>8, <1>9

\* The 603 is acknowledged with a 200 and an ACK.
LEMMA OnDeclineIInv ==
    ASSUME IInv, NEW e \in Sides, NEW i, OnDecline(e, i)
    PROVE  IInv'
<1> USE DEF IInv
<1>1. i \in DOMAIN net[e] /\ "603" \in ToSet(net[e])
  BY DEF OnDecline, Reads, ToSet
<1> DEFINE msgs == IF con[e] THEN <<"200 INVITE", "ACK">> ELSE <<>>
<1>2. msgs \in Seq(Messages) /\ ToSet(msgs) \subseteq IF con[e] THEN {"200 INVITE", "ACK"} ELSE {}
  BY Literals DEF Messages
<1>3. net' = Taken(e, i, msgs)
  BY DEF OnDecline
<1> HIDE DEF msgs
<1> DEFINE more == Taken(e, i, msgs)
<1>4. /\ more \in [Sides -> Seq(Messages)]
      /\ ToSet(more[e]) \subseteq ToSet(net[e])
      /\ ToSet(more[Peer(e)]) \subseteq ToSet(net[Peer(e)]) \union ToSet(msgs)
  BY <1>1, <1>2, TakenElements, Peers
<1>5. net' = more
  BY <1>3
<1> HIDE DEF more
<1>6. TypeOK'
  BY <1>4, <1>5, Peers DEF TypeOK, OnDecline, network, signals, stopper, Ack
<1>7. MessagesHaveCause'
  <2> DEFINE new == ToSet(msgs)
  <2>1. UNCHANGED <<stopping, answer>>
    BY DEF OnDecline, stopper
  <2>2. connected["A"] => connected'["A"]
    BY Peers DEF TypeOK, OnDecline, signals, Ack
  <2>3. new \subseteq IF con[e] THEN {"200 INVITE", "ACK"} ELSE {}
    BY <1>2
  <2> HIDE DEF new
  <2>4. "603" \notin new /\ "BYE" \notin new /\ "eof" \notin new /\ (new # {} => con[e])
    BY <2>3
  <2>5. CASE e = "A"
    <3>1. ToSet(net'["A"]) \subseteq ToSet(net["A"]) \union {} /\ ToSet(net'["B"]) \subseteq ToSet(net["B"]) \union new
      BY <1>4, <1>5, <2>5, Peers DEF new
    <3>2. new # {} => connected'["A"]
      BY <2>4, <2>5, Peers DEF TypeOK, OnDecline, Ack
    <3>s. SentWithCause({}, new)
      BY <2>1, <2>2, <2>4, <3>1, <3>2 DEF SentWithCause
    <3> QED
      BY <3>s, CauseStep
  <2>6. CASE e = "B"
    <3>1. ToSet(net'["A"]) \subseteq ToSet(net["A"]) \union new /\ ToSet(net'["B"]) \subseteq ToSet(net["B"]) \union {}
      BY <1>4, <1>5, <2>6, Peers DEF new
    <3>2. answer # "none"
      BY <1>1, <2>6, Peers DEF MessagesHaveCause, ConnectedIsDecided
    <3>s. SentWithCause(new, {})
      BY <2>1, <2>2, <2>4, <3>1, <3>2 DEF SentWithCause
    <3> QED
      BY <3>s, CauseStep
  <2> QED
    BY <2>5, <2>6, Peers
<1>8. CallerConnectsFirst' /\ ConnectedIsDecided'
  BY <1>1, Peers DEF TypeOK, MessagesHaveCause, CallerConnectsFirst, ConnectedIsDecided, OnDecline, network, signals, stopper, Ack
<1>9. HangupHasCause'
  BY <1>1, Peers DEF TypeOK, MessagesHaveCause, HangupHasCause, OnDecline, network, signals, stopper, Ack
<1> QED
  BY <1>6, <1>7, <1>8, <1>9

\* A BYE is answered and the call reports that it was hung up.
LEMMA OnByeIInv ==
    ASSUME IInv, NEW e \in Sides, NEW i, OnBye(e, i)
    PROVE  IInv'
<1> USE DEF IInv
<1>1. i \in DOMAIN net[e] /\ "BYE" \in ToSet(net[e])
  BY DEF OnBye, Reads, ToSet
<1> DEFINE msgs == IF con[e] THEN <<"200 BYE">> ELSE <<>>
<1>2. msgs \in Seq(Messages) /\ ToSet(msgs) \subseteq IF con[e] THEN {"200 BYE"} ELSE {}
  BY Literals DEF Messages
<1>3. net' = Taken(e, i, msgs)
  BY DEF OnBye
<1> HIDE DEF msgs
<1> DEFINE more == Taken(e, i, msgs)
<1>4. /\ more \in [Sides -> Seq(Messages)]
      /\ ToSet(more[e]) \subseteq ToSet(net[e])
      /\ ToSet(more[Peer(e)]) \subseteq ToSet(net[Peer(e)]) \union ToSet(msgs)
  BY <1>1, <1>2, TakenElements, Peers
<1>5. net' = more
  BY <1>3
<1> HIDE DEF more
<1>6. TypeOK'
  BY <1>4, <1>5, Peers DEF TypeOK, OnBye, network, signals, stopper
<1>7. MessagesHaveCause'
  <2> DEFINE new == ToSet(msgs)
  <2>1. UNCHANGED <<stopping, answer>>
    BY DEF OnBye, stopper
  <2>2. connected["A"] => connected'["A"]
    BY Peers DEF TypeOK, OnBye, signals
  <2>3. new \subseteq IF con[e] THEN {"200 BYE"} ELSE {}
    BY <1>2
  <2> HIDE DEF new
  <2>4. ToSet(net'["A"]) \subseteq ToSet(net["A"]) \union {"200 BYE"} /\ ToSet(net'["B"]) \subseteq ToSet(net["B"]) \union {"200 BYE"}
    BY <1>4, <1>5, <2>3, Peers DEF new
  <2>s. SentWithCause({"200 BYE"}, {"200 BYE"})
    BY <2>1, <2>2, <2>4 DEF SentWithCause
  <2> QED
    BY <2>s, CauseStep
<1>8. CallerConnectsFirst' /\ ConnectedIsDecided'
  BY <1>1, Peers DEF TypeOK, MessagesHaveCause, CallerConnectsFirst, ConnectedIsDecided, OnBye, network, signals, stopper
<1>9. HangupHasCause'
  BY <1>1, Peers DEF TypeOK, MessagesHaveCause, HangupHasCause, OnBye, network, signals, stopper
<1> QED
  BY <1>6, <1>7, <1>8, <1>9

\* The answer to a BYE ends the wait in stop().
LEMMA OnByeAnswerIInv ==
    ASSUME IInv, NEW e \in Sides, NEW i, OnByeAnswer(e, i)
    PROVE  IInv'
<1> USE DEF IInv
<1>1. i \in DOMAIN net[e]
  BY DEF OnByeAnswer, Reads
<1> DEFINE msgs == <<>>
<1>2. msgs \in Seq(Messages) /\ ToSet(msgs) \subseteq {"200 BYE"}
  BY Literals
<1>3. net' = Taken(e, i, msgs)
  BY DEF OnByeAnswer
<1> HIDE DEF msgs
<1> DEFINE more == Taken(e, i, msgs)
<1>4. /\ more \in [Sides -> Seq(Messages)]
      /\ ToSet(more[e]) \subseteq ToSet(net[e])
      /\ ToSet(more[Peer(e)]) \subseteq ToSet(net[Peer(e)]) \union ToSet(msgs)
  BY <1>1, <1>2, TakenElements, Peers
<1>5. net' = more
  BY <1>3
<1> HIDE DEF more
<1>6. TypeOK'
  BY <1>4, <1>5, Peers DEF TypeOK, OnByeAnswer, network, signals, stopper
<1>7. \A x \in Sides : ToSet(net'[x]) \subseteq ToSet(net[x]) \union {"INVITE", "200 BYE"}
  BY <1>2, <1>4, <1>5, Peers
<1> QED
  BY <1>6, <1>7, QuietStep DEF OnByeAnswer, network, signals, stopper

\* The end of the connection hangs up.
LEMMA OnCloseIInv ==
    ASSUME IInv, NEW e \in Sides, OnClose(e)
    PROVE  IInv'
<1> USE DEF IInv
<1>1. 1 \in DOMAIN net[e] /\ "eof" \in ToSet(net[e])
  BY DEF OnClose, Reads, ToSet
<1> DEFINE msgs == <<>>
<1>2. msgs \in Seq(Messages) /\ ToSet(msgs) \subseteq {"200 BYE"}
  BY Literals
<1>3. net' = Taken(e, 1, msgs)
  BY DEF OnClose
<1> HIDE DEF msgs
<1> DEFINE more == Taken(e, 1, msgs)
<1>4. /\ more \in [Sides -> Seq(Messages)]
      /\ ToSet(more[e]) \subseteq ToSet(net[e])
      /\ ToSet(more[Peer(e)]) \subseteq ToSet(net[Peer(e)]) \union ToSet(msgs)
  BY <1>1, <1>2, TakenElements, Peers
<1>5. net' = more
  BY <1>3
<1> HIDE DEF more
<1>6. TypeOK'
  BY <1>4, <1>5, Peers DEF TypeOK, OnClose, network, signals, stopper
<1>7. MessagesHaveCause'
  <2> DEFINE new == ToSet(msgs)
  <2>1. UNCHANGED <<stopping, answer>>
    BY DEF OnClose, stopper
  <2>2. connected["A"] => connected'["A"]
    BY Peers DEF TypeOK, OnClose, signals
  <2>3. new \subseteq {"200 BYE"}
    BY <1>2
  <2> HIDE DEF new
  <2>4. ToSet(net'["A"]) \subseteq ToSet(net["A"]) \union {"200 BYE"} /\ ToSet(net'["B"]) \subseteq ToSet(net["B"]) \union {"200 BYE"}
    BY <1>4, <1>5, <2>3, Peers DEF new
  <2>s. SentWithCause({"200 BYE"}, {"200 BYE"})
    BY <2>1, <2>2, <2>4 DEF SentWithCause
  <2> QED
    BY <2>s, CauseStep
<1>8. CallerConnectsFirst' /\ ConnectedIsDecided'
  BY <1>1, Peers DEF TypeOK, MessagesHaveCause, CallerConnectsFirst, ConnectedIsDecided, OnClose, network, signals, stopper
<1>9. HangupHasCause'
  BY <1>1, Peers DEF TypeOK, MessagesHaveCause, HangupHasCause, OnClose, network, signals, stopper
<1> QED
  BY <1>6, <1>7, <1>8, <1>9

\* The timer that misses a sign of the peer.
LEMMA InactiveIInv ==
    ASSUME IInv, NEW e \in Sides, Inactive(e)
    PROVE  IInv'
<1> USE DEF IInv
<1>1. TypeOK' /\ told' \in [Sides -> SUBSET {"bye", "declined", "closed", "inactive", "silent"}]
  BY DEF TypeOK, Inactive, network, signals, stopper
<1>2. \A x \in Sides : told'[x] \subseteq told[x] \union {"inactive", "silent"}
  BY DEF TypeOK, Inactive
<1>3. UNCHANGED <<net, connected, stopping, answer>>
  BY DEF Inactive, signals, stopper
<1> QED
  BY <1>1, <1>2, <1>3 DEF MessagesHaveCause, CallerConnectsFirst, ConnectedIsDecided, HangupHasCause

\* The timer that misses any sign on the connection.
LEMMA SilentIInv ==
    ASSUME IInv, NEW e \in Sides, Silent(e)
    PROVE  IInv'
<1> USE DEF IInv
<1>1. TypeOK' /\ told' \in [Sides -> SUBSET {"bye", "declined", "closed", "inactive", "silent"}]
  BY DEF TypeOK, Silent, network, signals, stopper
<1>2. \A x \in Sides : told'[x] \subseteq told[x] \union {"inactive", "silent"}
  BY DEF TypeOK, Silent
<1>3. UNCHANGED <<net, connected, stopping, answer>>
  BY DEF Silent, signals, stopper
<1> QED
  BY <1>1, <1>2, <1>3 DEF MessagesHaveCause, CallerConnectsFirst, ConnectedIsDecided, HangupHasCause

\* Whatever message arrives.
LEMMA DeliverIInv ==
    ASSUME IInv, NEW e \in Sides, Deliver(e)
    PROVE  IInv'
BY OnCloseIInv, OnUnknownIInv, OnAnswerIInv, OnAckIInv, OnDeclineIInv, OnByeIInv, OnByeAnswerIInv
   DEF Deliver

\* Every step preserves the invariant,
LEMMA NextIInv == IInv /\ [Next]_vars => IInv'
<1> SUFFICES ASSUME IInv, [Next]_vars PROVE IInv'
  OBVIOUS
<1>1. ASSUME Lose \/ Call \/ Answer \/ Refuse PROVE IInv'
  BY <1>1, LoseIInv, CallIInv, AnswerIInv, RefuseIInv
<1>2. ASSUME NEW i \in DOMAIN net["B"], OnInvite(i) PROVE IInv'
  BY <1>2, OnInviteIInv
<1>3. ASSUME NEW e \in Sides, StartMedia(e) \/ Stop(e) \/ Bye(e) \/ Destroy(e) PROVE IInv'
  BY <1>3, StartMediaIInv, StopIInv, ByeIInv, DestroyIInv
<1>4. ASSUME NEW e \in Sides, Deliver(e) \/ Inactive(e) \/ Silent(e) PROVE IInv'
  BY <1>4, DeliverIInv, InactiveIInv, SilentIInv
<1>5. CASE UNCHANGED vars
  BY <1>5 DEF vars, IInv, TypeOK, MessagesHaveCause, CallerConnectsFirst, ConnectedIsDecided,
              HangupHasCause
<1> QED
  BY <1>1, <1>2, <1>3, <1>4, <1>5 DEF Next

\* so it always holds.
LEMMA AlwaysIInv == Spec => []IInv
BY InitIInv, NextIInv, PTL DEF Spec

\* The members of both call objects keep their types, and what is on its way are messages.
THEOREM TypeCorrect == Spec => []TypeOK
<1>1. IInv => TypeOK
  BY DEF IInv
<1> QED
  BY <1>1, AlwaysIInv, PTL

\* The callee's on_connected comes after the caller's, in every order of messages.
THEOREM CallerAlwaysFirst == Spec => []CallerConnectsFirst
<1>1. IInv => CallerConnectsFirst
  BY DEF IInv
<1> QED
  BY <1>1, AlwaysIInv, PTL

\* No call is connected before the callee's application has answered or refused.
THEOREM ConnectedAlwaysDecided == Spec => []ConnectedIsDecided
<1>1. IInv => ConnectedIsDecided
  BY DEF IInv
<1> QED
  BY <1>1, AlwaysIInv, PTL

\* on_hangup reports a BYE or the end of the connection only of a peer that stops, and a
\* refusal only when there was one.
THEOREM HangupAlwaysHasCause == Spec => []HangupHasCause
<1>1. IInv => HangupHasCause
  BY DEF IInv
<1> QED
  BY <1>1, AlwaysIInv, PTL
=============================================================================
