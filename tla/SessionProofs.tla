---------------------------- MODULE SessionProofs ----------------------------
(***************************************************************************)
(* For any bounds: offer and answer leave one DTLS client and one server,  *)
(* and, when one side makes all the offers, the SRTP keys of the two sides *)
(* fit together and do not change.                                         *)
(***************************************************************************)
EXTENDS Session, FiniteSetTheorems, TLAPS

\* There is exactly one other endpoint.
LEMMA TwoEnds ==
    ASSUME NEW e \in Ends
    PROVE  /\ Peer(e) \in Ends /\ Peer(e) # e
           /\ Ends = {e, Peer(e)}
           /\ Peer(Peer(e)) = e
  <1>1. IsFiniteSet(Ends \ {e}) /\ Cardinality(Ends \ {e}) = 1
    BY FS_RemoveElement, EndsAssumption
  <1>2. PICK p \in Ends : p # e
    <2>1. Ends \ {e} # {}
      BY <1>1, FS_EmptySet
    <2>2. QED
      BY <2>1
  <1>3. IsFiniteSet((Ends \ {e}) \ {p}) /\ Cardinality((Ends \ {e}) \ {p}) = 0
    <2>1. p \in Ends \ {e}
      BY <1>2
    <2>2. Cardinality((Ends \ {e}) \ {p}) = Cardinality(Ends \ {e}) - 1 /\ IsFiniteSet((Ends \ {e}) \ {p})
      BY <1>1, <2>1, FS_RemoveElement
    <2>3. QED
      BY <1>1, <2>2
  <1>4. (Ends \ {e}) \ {p} = {}
    BY <1>3, FS_EmptySet
  <1>5. Ends = {e, p}
    BY <1>2, <1>4
  <1>6. \A x \in Ends : (x # e <=> x = p) /\ (x # p <=> x = e)
    BY <1>2, <1>5
  <1>7. Peer(e) = p /\ Peer(p) = e
    BY <1>2, <1>6 DEF Peer
  <1>8. QED
    BY <1>2, <1>5, <1>7

\* What a datagram handler leaves: types are kept, whatever OpenSSL does.
LEMMA ReceiveType ==
    ASSUME TypeOK, NEW m \in net, NEW rest \in SUBSET net, Receive(m, rest)
    PROVE  TypeOK' /\ UNCHANGED <<ends, signal>>
  <1> DEFINE e == m.to
             Types == {"request", "response", "hello", "certificate", "key", "finished"}
  <1>1. e \in Ends /\ Peer(e) \in Ends /\ rest \subseteq Messages
    BY TwoEnds DEF TypeOK, Messages, To
  <1>2. \A types \in SUBSET Types : To(Peer(e), types) \subseteq Messages
    BY <1>1 DEF To, Messages
  <1>3. CASE OnRequest(e, rest)
    <2>1. net' \subseteq Messages
      BY <1>1, <1>2, <1>3 DEF OnRequest
    <2>2. UNCHANGED <<ends, tls, signal>>
      BY <1>3 DEF OnRequest
    <2>3. QED
      BY <2>1, <2>2 DEF TypeOK, ends, tls, Messages, To
  <1>4. CASE OnResponse(e, rest)
    <2>1. Again(side[e], stage[e]) \in SUBSET Types
      BY DEF Again
    <2>2. net' \subseteq Messages
      BY <1>1, <1>2, <1>4, <2>1 DEF OnResponse
    <2>3. UNCHANGED <<ends, keys, connected, signal>>
      BY <1>4 DEF OnResponse
    <2>4. side' \in [Ends -> {"none", "client", "server"}]
      BY <1>1, <1>4 DEF OnResponse, TypeOK
    <2>5. stage' \in [Ends -> {"none", "hello", "key", "done", "failed"}]
      BY <1>1, <1>4 DEF OnResponse, TypeOK
    <2>6. QED
      BY <2>2, <2>3, <2>4, <2>5 DEF TypeOK, ends, Messages, To
  <1>5. CASE OnDtls(e, m.type, rest)
    <2> DEFINE s == IF side[e] = "none" THEN "server" ELSE side[e]
               g == Reached(s, stage[e], m.type)
    <2>1. Answer(s, stage[e], m.type) \in SUBSET Types
      BY DEF Answer
    <2>2. s \in {"client", "server"}
      BY <1>1 DEF TypeOK
    <2>3. stage[e] \in {"none", "hello", "key", "done", "failed"}
      BY <1>1 DEF TypeOK
    <2>4. g \in {"none", "hello", "key", "done", "failed"}
      BY <2>3 DEF Reached
    <2>5. /\ side' = [side EXCEPT ![e] = s] /\ stage' = [stage EXCEPT ![e] = g]
          /\ net' = rest \union To(Peer(e), Answer(s, stage[e], m.type))
          /\ UNCHANGED <<ends, signal>>
      BY <1>5 DEF OnDtls
    <2>6. keys' \in [Ends -> {"none", "client", "server"}]
      BY <1>1, <1>5 DEF OnDtls, TypeOK
    <2>7. connected' \in [Ends -> 0..2]
      <3>1. connected \in [Ends -> 0..2]
        BY DEF TypeOK
      <3>2. connected' = connected \/ connected' = [connected EXCEPT ![e] = IF @ < 2 THEN @ + 1 ELSE @]
        BY <1>5 DEF OnDtls
      <3>3. QED
        BY <1>1, <3>1, <3>2
    <2> HIDE DEF s, g
    <2>8. net' \subseteq Messages
      BY <1>1, <1>2, <2>1, <2>5
    <2>9. side' \in [Ends -> {"none", "client", "server"}]
      BY <1>1, <2>2, <2>5 DEF TypeOK
    <2>10. stage' \in [Ends -> {"none", "hello", "key", "done", "failed"}]
      BY <1>1, <2>4, <2>5 DEF TypeOK
    <2>11. QED
      BY <2>5, <2>6, <2>7, <2>8, <2>9, <2>10 DEF TypeOK, ends, Messages, To
  <1>6. QED
    BY <1>3, <1>4, <1>5 DEF Receive

\* Where the exchange stands, by the message on its way.  x made the last offer: it
\* said actpass, so the other end answers active and becomes the client, whatever the
\* roles were before.
Offering(x) == sdpRole[x] = "offer" /\ setup[x] = "actpass"
Answering(x) == sdpRole[x] = "answer" /\ setup[x] = "active" /\ dtlsRole[x] = "client"
Exchange ==
    \/ /\ signal = <<>>
       /\ \/ \A e \in Ends : sdpRole[e] = "unknown"
          \/ \E x \in Ends : Offering(x) /\ Answering(Peer(x)) /\ dtlsRole[x] = "server"
    \/ \E x \in Ends :
         /\ Offering(x)
         /\ signal = <<[to |-> Peer(x), type |-> "offer", setup |-> "actpass"]>>
    \/ \E x \in Ends :
         /\ Offering(x) /\ Answering(Peer(x))
         /\ signal = <<[to |-> Peer(x), type |-> "create_answer", setup |-> "none"]>>
    \/ \E x \in Ends :
         /\ Offering(x) /\ Answering(Peer(x))
         /\ signal = <<[to |-> x, type |-> "answer", setup |-> "active"]>>

Inv == TypeOK /\ Exchange

\* No offer was made initially.
LEMMA InitInv == Init => Inv
<1> SUFFICES ASSUME Init PROVE Inv
  OBVIOUS
<1>1. /\ sdpRole \in [Ends -> {"unknown", "offer", "answer"}]
      /\ setup \in [Ends -> {"none", "actpass", "active", "passive"}]
      /\ dtlsRole \in [Ends -> {"client", "server"}]
      /\ side \in [Ends -> {"none", "client", "server"}]
      /\ stage \in [Ends -> {"none", "hello", "key", "done", "failed"}]
      /\ keys \in [Ends -> {"none", "client", "server"}]
      /\ connected \in [Ends -> 0..2]
  BY DEF Init
<1>2. active \in [Ends -> BOOLEAN] /\ net \subseteq Messages
  BY DEF Init
<1>3. Exchange
  BY DEF Init, Exchange
<1>4. QED
  BY <1>1, <1>2, <1>3 DEF Inv, TypeOK

\* What the timer sends is a datagram.
LEMMA TimerType ==
    ASSUME TypeOK, NEW e \in Ends, Timer(e)
    PROVE  TypeOK' /\ UNCHANGED <<ends, tls, signal>>
  <1>1. To(Peer(e), {"request"}) \subseteq Messages
    BY TwoEnds DEF To, Messages
  <1>2. net' \subseteq Messages /\ UNCHANGED <<ends, tls, signal>>
    BY <1>1 DEF Timer, TypeOK
  <1>3. QED
    BY <1>2 DEF TypeOK, ends, tls, Messages, To

\* create_offer() starts an exchange on a settled session.
LEMMA CreateOfferInv ==
    ASSUME Inv, NEW e \in Ends, CreateOffer(e)
    PROVE  Inv'
  <1>1. /\ sdpRole' = [sdpRole EXCEPT ![e] = "offer"] /\ setup' = [setup EXCEPT ![e] = "actpass"]
        /\ signal' = <<[to |-> Peer(e), type |-> "offer", setup |-> "actpass"]>>
        /\ UNCHANGED <<dtlsRole, active, tls, net>>
    BY DEF CreateOffer
  <1>2. TypeOK'
    BY <1>1 DEF Inv, TypeOK, tls, Messages, To
  <1>3. Offering(e)'
    BY <1>1 DEF Inv, TypeOK, Offering
  <1>4. QED
    BY <1>1, <1>2, <1>3 DEF Inv, Exchange

\* set_remote_sdp() with an offer makes the other end the client.
LEMMA SetRemoteOfferInv ==
    ASSUME Inv, NEW e \in Ends, SetRemoteOffer(e)
    PROVE  Inv' /\ Answering(e)' /\ Offering(Peer(e))
  <1>1. PICK x \in Ends : /\ Offering(x)
                          /\ signal = <<[to |-> Peer(x), type |-> "offer", setup |-> "actpass"]>>
    BY DEF Inv, Exchange, SetRemoteOffer
  <1>2. e = Peer(x) /\ x # e /\ x = Peer(e)
    BY <1>1, TwoEnds DEF SetRemoteOffer
  <1>3. LocalSetup("actpass") = "active" /\ DtlsRole("active", "actpass") = "client"
    BY DEF LocalSetup, DtlsRole
  <1>4. /\ sdpRole' = [sdpRole EXCEPT ![e] = "answer"] /\ setup' = [setup EXCEPT ![e] = "active"]
        /\ dtlsRole' = [dtlsRole EXCEPT ![e] = "client"]
        /\ signal' = <<[to |-> e, type |-> "create_answer", setup |-> "none"]>>
        /\ UNCHANGED <<active, tls, net>>
    <2>1. Head(signal).setup = "actpass"
      BY <1>1
    <2>2. QED
      BY <1>3, <2>1 DEF SetRemoteOffer
  <1>5. TypeOK'
    BY <1>4 DEF Inv, TypeOK, tls, Messages, To
  <1>6. Answering(e)' /\ Offering(x)'
    BY <1>1, <1>2, <1>4 DEF Inv, TypeOK, Answering, Offering
  <1>7. QED
    BY <1>1, <1>2, <1>4, <1>5, <1>6 DEF Inv, Exchange

\* create_answer() returns what set_remote_sdp() chose.
LEMMA CreateAnswerInv ==
    ASSUME Inv, NEW e \in Ends, CreateAnswer(e)
    PROVE  Inv' /\ Answering(e)
  <1>1. PICK x \in Ends : /\ Offering(x) /\ Answering(Peer(x))
                          /\ signal = <<[to |-> Peer(x), type |-> "create_answer", setup |-> "none"]>>
    BY DEF Inv, Exchange, CreateAnswer
  <1>2. e = Peer(x) /\ x # e /\ x = Peer(e)
    BY <1>1, TwoEnds DEF CreateAnswer
  <1>3. /\ active' = [active EXCEPT ![e] = TRUE]
        /\ signal' = <<[to |-> x, type |-> "answer", setup |-> "active"]>>
        /\ UNCHANGED <<sdpRole, setup, dtlsRole, tls, net>>
    BY <1>1, <1>2 DEF CreateAnswer, Answering
  <1>4. TypeOK'
    BY <1>3 DEF Inv, TypeOK, tls, Messages, To
  <1>5. Offering(x)' /\ Answering(Peer(x))'
    BY <1>1, <1>3 DEF Offering, Answering
  <1>6. QED
    BY <1>1, <1>2, <1>3, <1>4, <1>5 DEF Inv, Exchange

\* set_remote_sdp() with an answer makes the offerer the server.
LEMMA SetRemoteAnswerInv ==
    ASSUME Inv, NEW e \in Ends, SetRemoteAnswer(e)
    PROVE  Inv' /\ Offering(e) /\ Answering(Peer(e)) /\ dtlsRole' = [dtlsRole EXCEPT ![e] = "server"]
  <1>1. PICK x \in Ends : /\ Offering(x) /\ Answering(Peer(x))
                          /\ signal = <<[to |-> x, type |-> "answer", setup |-> "active"]>>
    BY DEF Inv, Exchange, SetRemoteAnswer
  <1>2. e = x /\ Peer(x) # x
    BY <1>1, TwoEnds DEF SetRemoteAnswer
  <1>3. DtlsRole("actpass", "active") = "server"
    BY DEF DtlsRole
  <1>4. /\ dtlsRole' = [dtlsRole EXCEPT ![e] = "server"] /\ active' = [active EXCEPT ![e] = TRUE]
        /\ signal' = <<>> /\ UNCHANGED <<sdpRole, setup, tls, net>>
    <2>1. Head(signal).setup = "active" /\ setup[e] = "actpass"
      BY <1>1, <1>2 DEF Offering
    <2>2. QED
      BY <1>3, <2>1 DEF SetRemoteAnswer
  <1>5. TypeOK'
    BY <1>4 DEF Inv, TypeOK, tls, Messages, To
  <1>6. Offering(x)' /\ Answering(Peer(x))' /\ dtlsRole'[x] = "server"
    BY <1>1, <1>2, <1>4 DEF Inv, TypeOK, Offering, Answering
  <1>7. QED
    BY <1>1, <1>2, <1>4, <1>5, <1>6 DEF Inv, Exchange

\* The transport's steps keep the types and leave the exchange alone.
LEMMA TransportStep ==
    ASSUME Inv,
           \/ \E e \in Ends : Timer(e)
           \/ \E m \in net : Deliver(m) \/ Duplicate(m)
           \/ Lose
    PROVE  Inv' /\ UNCHANGED ends
  <1>1. TypeOK' /\ UNCHANGED <<ends, signal>>
    <2>1. ASSUME NEW e \in Ends, Timer(e) PROVE TypeOK' /\ UNCHANGED <<ends, signal>>
      BY <2>1, TimerType DEF Inv
    <2>2. ASSUME NEW m \in net, Deliver(m) PROVE TypeOK' /\ UNCHANGED <<ends, signal>>
      <3>1. net \ {m} \in SUBSET net /\ Receive(m, net \ {m})
        BY <2>2 DEF Deliver
      <3>2. QED
        BY <3>1, ReceiveType DEF Inv
    <2>3. ASSUME NEW m \in net, Duplicate(m) PROVE TypeOK' /\ UNCHANGED <<ends, signal>>
      <3>1. net \in SUBSET net /\ Receive(m, net)
        BY <2>3 DEF Duplicate
      <3>2. QED
        BY <3>1, ReceiveType DEF Inv
    <2>4. ASSUME Lose PROVE TypeOK' /\ UNCHANGED <<ends, signal>>
      BY <2>4 DEF Lose, Inv, TypeOK, ends, tls, Messages, To
    <2>5. QED
      BY <2>1, <2>2, <2>3, <2>4
  <1>2. Exchange'
    BY <1>1 DEF Inv, Exchange, Offering, Answering, ends
  <1>3. QED
    BY <1>1, <1>2 DEF Inv

\* Every step preserves the invariant.
LEMMA NextInv == Inv /\ [Next]_vars => Inv'
<1> SUFFICES ASSUME Inv, [Next]_vars PROVE Inv'
  OBVIOUS
<1>1. CASE UNCHANGED vars
  BY <1>1 DEF vars, ends, tls, Inv, TypeOK, Exchange, Offering, Answering, Messages, To
<1>2. QED
  BY <1>1, CreateOfferInv, SetRemoteOfferInv, CreateAnswerInv, SetRemoteAnswerInv, TransportStep DEF Next

\* Type correctness of both sessions: dtls_role() always yields a role.
THEOREM TypeCorrect == Spec => []TypeOK
  BY InitInv, NextInv, PTL DEF Spec, Inv

\* After every exchange, whoever offered and however often, there is one DTLS client.
THEOREM RolesAgreeAlways == Spec => []RolesAgree
<1>1. Inv => RolesAgree
  <2> SUFFICES ASSUME Inv, signal = <<>>, NEW p \in Ends, sdpRole[p] = "answer"
               PROVE  Cardinality({e \in Ends : dtlsRole[e] = "client"}) = 1
    BY DEF RolesAgree, Settled
  <2>1. PICK x \in Ends : Answering(Peer(x)) /\ dtlsRole[x] = "server"
    BY DEF Inv, Exchange
  <2>2. Ends = {x, Peer(x)}
    BY TwoEnds
  <2>3. {e \in Ends : dtlsRole[e] = "client"} = {Peer(x)}
    BY <2>1, <2>2 DEF Answering
  <2>4. QED
    BY <2>3, FS_Singleton
<1>2. QED
  BY <1>1, InitInv, NextInv, PTL DEF Spec

-----------------------------------------------------------------------------
(* The keys, when o makes all the offers                                   *)

\* Nothing is sent before the answerer has its role; from then on o is the server and
\* the other end the client, and keys are made for that role only.
KeyInv(o) ==
    LET p == Peer(o) IN
    /\ dtlsRole[o] = "server" /\ keys[o] \in {"none", "server"}
    /\ keys[p] \in {"none", "client"}
    /\ sdpRole[p] # "offer" /\ sdpRole[o] # "answer"
    /\ sdpRole[p] = "answer" => dtlsRole[p] = "client"
    /\ sdpRole[p] # "answer" => net = {} /\ \A e \in Ends : ~active[e]

\* A datagram is handled with the role that the exchange fixed, so its keys are the ones
\* there are.
LEMMA ReceiveKeys ==
    ASSUME NEW o \in Ends, Inv, KeyInv(o), NEW m \in net, NEW rest \in SUBSET net, Receive(m, rest)
    PROVE  KeyInv(o)' /\ \A e \in Ends : keys[e] # "none" => keys'[e] = keys[e]
  <1> DEFINE p == Peer(o)
             e == m.to
  <1>1. p \in Ends /\ p # o /\ Ends = {o, p} /\ e \in Ends
    BY TwoEnds DEF Inv, TypeOK, Messages, To
  <1>2. sdpRole[p] = "answer" /\ dtlsRole[p] = "client" /\ dtlsRole[o] = "server"
    BY DEF KeyInv
  <1>3. UNCHANGED <<ends, signal>>
    BY ReceiveType DEF Inv
  <1>4. keys' = keys \/ keys' = [keys EXCEPT ![e] = dtlsRole[e]]
    BY DEF Receive, OnRequest, OnResponse, OnDtls, tls
  <1>5. /\ keys \in [Ends -> {"none", "client", "server"}]
        /\ keys[o] \in {"none", "server"} /\ keys[p] \in {"none", "client"}
    BY DEF KeyInv, Inv, TypeOK
  <1>6. /\ keys'[o] \in {"none", "server"} /\ keys'[p] \in {"none", "client"}
        /\ \A x \in Ends : keys[x] # "none" => keys'[x] = keys[x]
    BY <1>1, <1>2, <1>4, <1>5
  <1>7. QED
    BY <1>2, <1>3, <1>6 DEF KeyInv, ends

\* Every step keeps the roles apart and the keys there are.
LEMMA NextKeys ==
    ASSUME NEW o \in Ends, Offerers = {o}, Inv, KeyInv(o), [Next]_vars
    PROVE  KeyInv(o)' /\ \A e \in Ends : keys[e] # "none" => keys'[e] = keys[e]
  <1> DEFINE p == Peer(o)
             Kept == \A e \in Ends : keys[e] # "none" => keys'[e] = keys[e]
  <1>0. /\ p \in Ends /\ p # o /\ Ends = {o, p} /\ Peer(p) = o
        /\ sdpRole \in [Ends -> {"unknown", "offer", "answer"}]
        /\ dtlsRole \in [Ends -> {"client", "server"}] /\ active \in [Ends -> BOOLEAN]
    BY TwoEnds DEF Inv, TypeOK
  <1>1. ASSUME NEW e \in Ends, CreateOffer(e) PROVE KeyInv(o)' /\ Kept
    <2>1. e = o /\ sdpRole' = [sdpRole EXCEPT ![o] = "offer"] /\ UNCHANGED <<dtlsRole, active, tls, net>>
      BY <1>1 DEF CreateOffer
    <2>2. sdpRole'[o] = "offer" /\ sdpRole'[p] = sdpRole[p]
      BY <1>0, <2>1
    <2>3. QED
      BY <1>0, <2>1, <2>2 DEF KeyInv, tls
  <1>2. ASSUME NEW e \in Ends, SetRemoteOffer(e) PROVE KeyInv(o)' /\ Kept
    <2>1. Answering(e)' /\ Offering(Peer(e))
      BY <1>2, SetRemoteOfferInv
    <2>2. e = p
      BY <1>0, <2>1 DEF KeyInv, Offering
    <2>3. UNCHANGED tls /\ \E r : dtlsRole' = [dtlsRole EXCEPT ![p] = r]
                        /\ sdpRole' = [sdpRole EXCEPT ![p] = "answer"]
      BY <1>2, <2>2 DEF SetRemoteOffer
    <2>4. dtlsRole'[o] = dtlsRole[o] /\ sdpRole'[o] = sdpRole[o]
      BY <1>0, <2>3
    <2>5. QED
      BY <1>0, <2>1, <2>2, <2>3, <2>4 DEF KeyInv, tls, Answering
  <1>3. ASSUME NEW e \in Ends, CreateAnswer(e) PROVE KeyInv(o)' /\ Kept
    <2>1. Answering(e)
      BY <1>3, CreateAnswerInv
    <2>2. e = p
      BY <1>0, <2>1 DEF KeyInv, Answering
    <2>3. UNCHANGED <<sdpRole, dtlsRole, tls>> /\ sdpRole[p] = "answer"
      BY <1>3, <2>1, <2>2 DEF CreateAnswer, Answering
    <2>4. QED
      BY <2>3 DEF KeyInv, tls
  <1>4. ASSUME NEW e \in Ends, SetRemoteAnswer(e) PROVE KeyInv(o)' /\ Kept
    <2>1. Offering(e) /\ Answering(Peer(e)) /\ dtlsRole' = [dtlsRole EXCEPT ![e] = "server"]
      BY <1>4, SetRemoteAnswerInv
    <2>2. e = o
      BY <1>0, <2>1 DEF KeyInv, Offering
    <2>3. dtlsRole'[o] = "server" /\ dtlsRole'[p] = dtlsRole[p]
      BY <1>0, <2>1, <2>2
    <2>4. UNCHANGED <<sdpRole, tls>> /\ sdpRole[p] = "answer"
      BY <1>4, <2>1, <2>2 DEF SetRemoteAnswer, Answering
    <2>5. QED
      BY <2>3, <2>4 DEF KeyInv, tls
  <1>5. ASSUME NEW e \in Ends, Timer(e) PROVE KeyInv(o)' /\ Kept
    <2>1. active[e] /\ UNCHANGED <<ends, tls>>
      BY <1>5 DEF Timer
    <2>2. sdpRole[p] = "answer"
      BY <2>1 DEF KeyInv
    <2>3. QED
      BY <2>1, <2>2 DEF KeyInv, ends, tls
  <1>6. ASSUME NEW m \in net, Deliver(m) PROVE KeyInv(o)' /\ Kept
    <2>1. net \ {m} \in SUBSET net /\ Receive(m, net \ {m})
      BY <1>6 DEF Deliver
    <2>2. QED
      BY <2>1, ReceiveKeys
  <1>7. ASSUME NEW m \in net, Duplicate(m) PROVE KeyInv(o)' /\ Kept
    <2>1. net \in SUBSET net /\ Receive(m, net)
      BY <1>7 DEF Duplicate
    <2>2. QED
      BY <2>1, ReceiveKeys
  <1>8. CASE Lose
    BY <1>8 DEF Lose, KeyInv, ends, tls
  <1>9. CASE UNCHANGED vars
    BY <1>9 DEF vars, KeyInv, ends, tls
  <1>10. QED
    BY <1>1, <1>2, <1>3, <1>4, <1>5, <1>6, <1>7, <1>8, <1>9 DEF Next

\* No keys initially, and both ends take themselves for the server.
LEMMA InitKeys == ASSUME NEW o \in Ends, Init PROVE KeyInv(o)
  BY TwoEnds DEF Init, KeyInv

\* When one side makes all the offers, what one end protects the other can unprotect,
\* whatever datagrams are lost, repeated or reordered.
THEOREM KeysMatchAlways ==
    ASSUME NEW o \in Ends, Offerers = {o}
    PROVE  Spec => []KeysMatch
<1>1. KeyInv(o) => KeysMatch
  <2> SUFFICES ASSUME KeyInv(o), NEW e \in Ends, keys[e] # "none", keys[Peer(e)] # "none"
               PROVE  keys[e] # keys[Peer(e)]
    BY DEF KeysMatch
  <2>1. e = o \/ (e = Peer(o) /\ Peer(e) = o)
    BY TwoEnds
  <2>2. QED
    BY <2>1 DEF KeyInv
<1>2. Init => KeyInv(o)
  BY InitKeys
<1>3. Inv /\ KeyInv(o) /\ [Next]_vars => KeyInv(o)'
  BY NextKeys
<1>4. QED
  BY <1>1, <1>2, <1>3, InitInv, NextInv, PTL DEF Spec

\* When one side makes all the offers, keys once exported are never replaced by others:
\* not by a repeated flight, nor by a new offer.
THEOREM KeysStayAlways ==
    ASSUME NEW o \in Ends, Offerers = {o}
    PROVE  Spec => KeysStay
<1>1. Init => KeyInv(o)
  BY InitKeys
<1>2. Inv /\ KeyInv(o) /\ [Next]_vars => KeyInv(o)'
  BY NextKeys
<1>3. Inv /\ KeyInv(o) /\ [Next]_vars => [\A e \in Ends : keys[e] # "none" => keys'[e] = keys[e]]_vars
  BY NextKeys
<1>4. QED
  BY <1>1, <1>2, <1>3, InitInv, NextInv, PTL DEF Spec, KeysStay
=============================================================================
