------------------------ MODULE RequestRoutingProofs ------------------------
(***************************************************************************)
(* Proofs about RequestRouting, for any sessions, client ids and numbers.  *)
(* The argument: the key under a number never changes but to be erased     *)
(* (EntryInv), it is erased only for a client that cancelled it            *)
(* (PlacedInv), and the one reader thread can have looked one number up    *)
(* before it is erased (LateInv).                                          *)
(***************************************************************************)
EXTENDS RequestRouting, TLAPS

(* The next-state relation without its quantified wrappers: what the case  *)
(* analyses below go through.                                              *)
Steps ==
  \/ \E key \in Key : Executions(key)
  \/ \E key \in Key : RequestFind(key)
  \/ \E key \in Key, kind \in Subscription : Subscribe(kind, key)
  \/ AddRequestSession \/ SendRequest \/ CancelPositionsMulti \/ RequestErase
  \/ DrawOther \/ PushAnswer
  \/ \E n \in Number : \/ Answer(n) \/ AnswersEnd(n) \/ Error(n)
                       \/ OtherCallback(n) \/ CommissionReport(n)
                       \/ NextValidId(n)

(* Every step is one of these.                                             *)
LEMMA NextIsSteps == Next => Steps
  BY DEF Next, Steps, SendWorker, Callback

(* Type correctness is kept by every step.                                 *)
LEMMA TypeStep == TypeOK /\ [Next]_vars => TypeOK'
<1> SUFFICES ASSUME TypeOK, [Next]_vars PROVE TypeOK'
  OBVIOUS
<1> USE NoKeyAssumption, NumberAssumption
<1> USE DEF Number, Routed, Subscription, RequestType, NoRequest, NoJob
<1>1. CASE UNCHANGED vars
  BY <1>1 DEF TypeOK, vars, workVars, historyVars
<1>2. ASSUME NEW key \in Key, Executions(key) PROVE TypeOK'
  BY <1>2 DEF TypeOK, Executions, historyVars, Key
<1>3. ASSUME NEW key \in Key, RequestFind(key) PROVE TypeOK'
  BY <1>3 DEF TypeOK, RequestFind, Entries, historyVars
<1>4. ASSUME NEW key \in Key, NEW kind \in Subscription, Subscribe(kind, key)
      PROVE TypeOK'
  BY <1>4 DEF TypeOK, Subscribe, historyVars
<1>5. CASE AddRequestSession
  BY <1>5 DEF TypeOK, AddRequestSession, DrawNumber, historyVars
<1>6. CASE SendRequest
  BY <1>6 DEF TypeOK, SendRequest, historyVars
<1>7. CASE CancelPositionsMulti
  BY <1>7 DEF TypeOK, CancelPositionsMulti, historyVars
<1>8. CASE RequestErase
  BY <1>8 DEF TypeOK, RequestErase
<1>9. CASE DrawOther
  BY <1>9 DEF TypeOK, DrawOther, DrawNumber, historyVars
<1>10. CASE PushAnswer
  BY <1>10 DEF TypeOK, PushAnswer, workVars
<1>11. ASSUME NEW n \in Number, NEW what \in {"answer", "end", "other"},
              Lookup(n, what), atTws' \in [Number -> {"none", "open", "ended",
                "closing", "closed", "refused"}]
       PROVE TypeOK'
  <2>1. lost' \subseteq Number
    BY <1>11 DEF TypeOK, Lookup
  <2>2. reader' \subseteq [number : Number, what : {"answer", "end", "other"},
                           key : Key]
    <3>1. CASE requestSession[n] = NoKey
      BY <3>1, <1>11 DEF TypeOK, Lookup
    <3>2. CASE requestSession[n] # NoKey
      <4>1. requestSession[n] \in Key
        BY <3>2 DEF TypeOK
      <4>2. reader' = {[number |-> n, what |-> what,
                        key |-> requestSession[n]]}
        BY <3>2, <1>11 DEF Lookup
      <4> QED
        BY <4>1, <4>2
    <3> QED
      BY <3>1, <3>2
  <2> QED
    BY <2>1, <2>2, <1>11 DEF TypeOK, Lookup, workVars
<1>12. ASSUME NEW n \in Number, Answer(n) PROVE TypeOK'
  BY <1>11, <1>12 DEF Answer, TypeOK
<1>13. ASSUME NEW n \in Number, AnswersEnd(n) PROVE TypeOK'
  BY <1>11, <1>13 DEF AnswersEnd, TypeOK
<1>14. ASSUME NEW n \in Number, Error(n) PROVE TypeOK'
  BY <1>14 DEF Error, TypeOK, workVars, historyVars
<1>15. ASSUME NEW n \in Number, OtherCallback(n) PROVE TypeOK'
  BY <1>11, <1>15 DEF OtherCallback, TypeOK
<1>16. ASSUME NEW n \in Number, CommissionReport(n) PROVE TypeOK'
  BY <1>16 DEF CommissionReport, TypeOK, workVars
<1>17. ASSUME NEW n \in Number, NextValidId(n) PROVE TypeOK'
  BY <1>17 DEF NextValidId, TypeOK, historyVars
<1> QED
  BY <1>1, <1>2, <1>3, <1>4, <1>5, <1>6, <1>7, <1>8, <1>9, <1>10, <1>12,
     <1>13, <1>14, <1>15, <1>16, <1>17, NextIsSteps DEF Steps

(* TypeOK: sessions, keys and numbers stay what they are.                  *)
THEOREM Typing == Spec => []TypeOK
<1>1. Init => TypeOK
  BY NumberAssumption, NoKeyAssumption
     DEF Init, TypeOK, Number, RequestType, NoRequest
<1> QED
  BY <1>1, TypeStep, PTL DEF Spec

-----------------------------------------------------------------------------
(* What is entered, on its way or pushed under a number stays that of the  *)
(* request the number was drawn for.                                       *)
LEMMA EntryStep ==
  TypeOK /\ EntryInv /\ RoutedHome /\ [Next]_vars => EntryInv' /\ RoutedHome'
<1> SUFFICES ASSUME TypeOK, EntryInv, RoutedHome, [Next]_vars
             PROVE  EntryInv' /\ RoutedHome'
  OBVIOUS
<1> USE NoKeyAssumption, NumberAssumption
<1> USE DEF Number, Routed, Subscription, RequestType, NoRequest, NoJob
<1>1. CASE UNCHANGED vars
  BY <1>1 DEF EntryInv, RoutedHome, vars, workVars, historyVars
<1>2. ASSUME NEW key \in Key, Executions(key) PROVE EntryInv' /\ RoutedHome'
  BY <1>2 DEF EntryInv, RoutedHome, Executions, historyVars
<1>3. ASSUME NEW key \in Key, RequestFind(key) PROVE EntryInv' /\ RoutedHome'
  BY <1>3 DEF EntryInv, RoutedHome, RequestFind, Entries, historyVars
<1>4. ASSUME NEW key \in Key, NEW kind \in Subscription, Subscribe(kind, key)
      PROVE EntryInv' /\ RoutedHome'
  BY <1>4 DEF EntryInv, RoutedHome, Subscribe, historyVars
<1>5. ASSUME NEW r \in RequestType, DrawNumber(r), reader' = reader,
             pushed' = pushed
      PROVE  /\ \A n \in Number : n # nextId => request'[n] = request[n]
             /\ \A q \in reader : q.what # "other" => q.number # nextId
             /\ RoutedHome'
             /\ \A q \in reader' :
                  \/ q.what # "other" /\ q.key = request'[q.number].key
                  \/ q.what = "other" /\ q.number \in OtherOrder
  <2>1. request[nextId].key = NoKey
    BY <1>5 DEF DrawNumber, EntryInv, TypeOK
  <2>2. \A q \in reader \cup pushed : q.key # NoKey /\ q.number \in Number
    BY DEF TypeOK
  <2>3. \A q \in reader \cup pushed :
          q.what # "other" => q.number # nextId
    BY <2>1, <2>2 DEF EntryInv, RoutedHome
  <2>4. \A n \in Number : n # nextId => request'[n] = request[n]
    BY <1>5 DEF DrawNumber, TypeOK
  <2> QED
    BY <2>2, <2>3, <2>4, <1>5 DEF EntryInv, RoutedHome
<1>6. CASE AddRequestSession
  <2>1. [kind |-> job.kind, key |-> job.key] \in RequestType
    BY <1>6 DEF AddRequestSession, TypeOK
  <2>2. pc' = "added" /\ nextId' = nextId + 1 /\ atTws' = atTws
          /\ request'[nextId] = [kind |-> job.kind, key |-> job.key]
          /\ requestSession'[nextId] = job.key /\ job.kind \in Routed
          /\ \A n \in Number :
               n # nextId => requestSession'[n] = requestSession[n]
    BY <1>6 DEF AddRequestSession, DrawNumber, TypeOK, EntryInv
  <2>3. DrawNumber([kind |-> job.kind, key |-> job.key]) /\ reader' = reader
          /\ pushed' = pushed
    BY <1>6 DEF AddRequestSession, historyVars
  <2>4. nextId \in Number
    BY <2>3 DEF DrawNumber
  <2>5. \A n \in Number : n # nextId => request'[n] = request[n]
    BY <1>5, <2>1, <2>3
  <2>6. \A n \in Number : requestSession'[n] # NoKey =>
          request'[n].kind \in Routed /\ requestSession'[n] = request'[n].key
    BY <2>2, <2>5 DEF EntryInv
  <2>7. \A n \in Number : n >= nextId' =>
          /\ request'[n] = NoRequest
          /\ requestSession'[n] = NoKey
          /\ atTws'[n] = "none"
    <3> SUFFICES ASSUME NEW n \in Number, n >= nextId'
                 PROVE  /\ request'[n] = NoRequest
                        /\ requestSession'[n] = NoKey
                        /\ atTws'[n] = "none"
      OBVIOUS
    <3>1. n >= nextId /\ n # nextId
      BY <2>2, <2>4
    <3> QED
      BY <3>1, <2>2, <2>5 DEF EntryInv
  <2>8. job'.number < nextId'
    BY <1>6, <2>2, <2>4 DEF AddRequestSession, TypeOK
  <2> QED
    BY <1>5, <2>1, <2>2, <2>3, <2>6, <2>7, <2>8 DEF EntryInv
<1>7. CASE DrawOther
  <2>1. [kind |-> "other", key |-> NoKey] \in RequestType
    OBVIOUS
  <2>2. DrawNumber([kind |-> "other", key |-> NoKey]) /\ reader' = reader
          /\ pushed' = pushed /\ pc' = pc /\ job' = job
          /\ requestSession' = requestSession /\ nextId' = nextId + 1
          /\ nextId \in Number
          /\ \A n \in Number : n # nextId => atTws'[n] = atTws[n]
    BY <1>7 DEF DrawOther, DrawNumber, historyVars, TypeOK
  <2>3. \A n \in Number : n # nextId => request'[n] = request[n]
    BY <1>5, <2>1, <2>2
  <2>4. \A n \in Number : requestSession'[n] # NoKey => n # nextId
    BY <2>2 DEF EntryInv
  <2>5. pc \in {"found", "cancelled"} => job.number # nextId
    BY <2>2 DEF EntryInv, TypeOK
  <2>6. \A n \in Number : n >= nextId' => n >= nextId /\ n # nextId
    BY <2>2
  <2>7. pc' \in {"found", "cancelled"} => request'[job'.number].key = job'.key
    BY <2>2, <2>3, <2>5 DEF EntryInv, TypeOK
  <2>8. \A n \in Number : n >= nextId' =>
          /\ request'[n] = NoRequest
          /\ requestSession'[n] = NoKey
          /\ atTws'[n] = "none"
    BY <2>2, <2>3, <2>6 DEF EntryInv
  <2>9. \A n \in Number : requestSession'[n] # NoKey =>
          request'[n].kind \in Routed /\ requestSession'[n] = request'[n].key
    BY <2>2, <2>3, <2>4 DEF EntryInv
  <2>10. pc' = "added" => job'.number < nextId'
    BY <2>2 DEF EntryInv, TypeOK
  <2> QED
    BY <1>5, <2>1, <2>2, <2>7, <2>8, <2>9, <2>10 DEF EntryInv
<1>8. CASE SendRequest
  <2>1. \A k \in Number : k >= nextId => k # job.number
    BY <1>8 DEF SendRequest, EntryInv, TypeOK
  <2>2. \A k \in Number : k # job.number => atTws'[k] = atTws[k]
    BY <1>8 DEF SendRequest, TypeOK
  <2> QED
    BY <1>8, <2>1, <2>2 DEF SendRequest, EntryInv, RoutedHome, historyVars
<1>9. CASE CancelPositionsMulti
  <2>1. \A k \in Number : k >= nextId => k # job.number
    BY <1>9 DEF CancelPositionsMulti, EntryInv, TypeOK
  <2>2. \A k \in Number : k # job.number => atTws'[k] = atTws[k]
    BY <1>9 DEF CancelPositionsMulti, TypeOK
  <2> QED
    BY <1>9, <2>1, <2>2 DEF CancelPositionsMulti, EntryInv, RoutedHome,
                            historyVars
<1>10. CASE RequestErase
  BY <1>10 DEF EntryInv, RoutedHome, RequestErase, TypeOK
<1>11. CASE PushAnswer
  BY <1>11 DEF EntryInv, RoutedHome, PushAnswer, workVars
<1>12. ASSUME NEW n \in Number, NEW what \in {"answer", "end", "other"},
              Lookup(n, what), what = "other" => n \in OtherOrder
                                               \/ request[n].kind = "other"
       PROVE  /\ \A r \in reader' :
                   \/ r.what # "other" /\ r.key = request'[r.number].key
                   \/ r.what = "other" /\ r.number \in OtherOrder
              /\ RoutedHome'
              /\ UNCHANGED <<workVars, request>>
  BY <1>12 DEF EntryInv, RoutedHome, Lookup
<1>13. ASSUME NEW n \in Number, Answer(n) PROVE EntryInv' /\ RoutedHome'
  BY <1>12, <1>13 DEF Answer, EntryInv, workVars
<1>14. ASSUME NEW n \in Number, AnswersEnd(n) PROVE EntryInv' /\ RoutedHome'
  <2>1. \A k \in Number : k >= nextId => k # n
    BY <1>14 DEF AnswersEnd, EntryInv
  <2>2. \A k \in Number : k # n => atTws'[k] = atTws[k]
    BY <1>14 DEF AnswersEnd, TypeOK
  <2> QED
    BY <1>12, <1>14, <2>1, <2>2 DEF AnswersEnd, EntryInv, workVars
<1>15. ASSUME NEW n \in Number, Error(n) PROVE EntryInv' /\ RoutedHome'
  <2>1. \A k \in Number : k >= nextId => k # n
    BY <1>15 DEF Error, EntryInv
  <2>2. \A k \in Number : k # n => atTws'[k] = atTws[k]
    BY <1>15 DEF Error, TypeOK
  <2> QED
    BY <1>15, <2>1, <2>2 DEF Error, EntryInv, RoutedHome, workVars,
                             historyVars
<1>16. ASSUME NEW n \in Number, OtherCallback(n) PROVE EntryInv' /\ RoutedHome'
  BY <1>12, <1>16 DEF OtherCallback, EntryInv, workVars
<1>17. ASSUME NEW n \in Number, CommissionReport(n)
       PROVE EntryInv' /\ RoutedHome'
  BY <1>17 DEF CommissionReport, EntryInv, RoutedHome, workVars
<1>18. ASSUME NEW n \in Number, NextValidId(n) PROVE EntryInv' /\ RoutedHome'
  <2>1. nextId' >= nextId /\ nextId' \in Nat /\ nextId \in Nat
    BY <1>18 DEF NextValidId, TypeOK
  <2>3. pc = "added" => job.number < nextId'
    BY <2>1 DEF EntryInv, TypeOK
  <2>2. \A k \in Number : k >= nextId' => k >= nextId
    BY <2>1
  <2> QED
    BY <1>18, <2>2, <2>3 DEF NextValidId, EntryInv, RoutedHome, historyVars
<1> QED
  BY <1>1, <1>2, <1>3, <1>4, <1>6, <1>7, <1>8, <1>9, <1>10, <1>11, <1>13,
     <1>14, <1>15, <1>16, <1>17, <1>18, NextIsSteps DEF Steps

(* RoutedHome: every answer goes to the request its number was drawn for.  *)
THEOREM AnswersRouted == Spec => []RoutedHome
<1>1. Init => EntryInv /\ RoutedHome
  BY DEF Init, EntryInv, RoutedHome
<1> QED
  BY <1>1, EntryStep, Typing, PTL DEF Spec

-----------------------------------------------------------------------------
(* The key of a request stays in place until its client cancels.           *)
LEMMA PlacedStep ==
  TypeOK /\ EntryInv /\ PlacedInv /\ NothingLost /\ [Next]_vars
    => PlacedInv' /\ NothingLost'
<1> SUFFICES ASSUME TypeOK, EntryInv, PlacedInv, NothingLost, [Next]_vars
             PROVE  PlacedInv' /\ NothingLost'
  OBVIOUS
<1> USE NoKeyAssumption, NumberAssumption
<1> USE DEF Number, Routed, Subscription, RequestType, NoRequest, NoJob
<1>1. CASE UNCHANGED vars
  BY <1>1 DEF PlacedInv, NothingLost, vars, workVars, historyVars
<1>2. ASSUME NEW key \in Key, Executions(key)
      PROVE PlacedInv' /\ NothingLost'
  BY <1>2 DEF PlacedInv, NothingLost, Executions, historyVars
<1>3. ASSUME NEW key \in Key, RequestFind(key)
      PROVE PlacedInv' /\ NothingLost'
  BY <1>3 DEF PlacedInv, NothingLost, RequestFind, Entries, historyVars
<1>4. ASSUME NEW key \in Key, NEW kind \in Subscription, Subscribe(kind, key)
      PROVE PlacedInv' /\ NothingLost'
  BY <1>4 DEF PlacedInv, NothingLost, Subscribe, historyVars
<1>5. ASSUME NEW r \in RequestType, DrawNumber(r)
      PROVE  /\ nextId \in Number /\ nextId \notin lost
             /\ request'[nextId] = r
             /\ \A n \in Number : n # nextId => request'[n] = request[n]
  <2>1. nextId \in Number /\ request'[nextId] = r
          /\ \A n \in Number : n # nextId => request'[n] = request[n]
    BY <1>5 DEF DrawNumber, TypeOK
  <2>2. request[nextId] = NoRequest
    BY <2>1 DEF EntryInv
  <2> QED
    BY <2>1, <2>2 DEF PlacedInv
<1>6. CASE AddRequestSession
  <2>1. [kind |-> job.kind, key |-> job.key] \in RequestType
    BY <1>6 DEF AddRequestSession, TypeOK
  <2>2. /\ DrawNumber([kind |-> job.kind, key |-> job.key])
        /\ UNCHANGED <<executionRequests, asked, lost>>
        /\ job.kind \in Routed /\ job.key \in Key
        /\ job.kind = "executions" => job.key[1] \in executionRequests
        /\ pc' = "added" /\ job'.kind = job.kind /\ job'.key = job.key
    BY <1>6 DEF AddRequestSession, historyVars, TypeOK, PlacedInv
  <2>3. /\ nextId \in Number => requestSession'[nextId] = job.key
        /\ \A n \in Number :
             n # nextId => requestSession'[n] = requestSession[n]
    BY <1>6 DEF AddRequestSession, TypeOK, EntryInv
  <2> DEFINE r == [kind |-> job.kind, key |-> job.key]
  <2>4. /\ nextId \in Number /\ nextId \notin lost /\ request'[nextId] = r
        /\ \A n \in Number : n # nextId => request'[n] = request[n]
    BY <1>5, <2>1, <2>2
  <2>5. \A n \in Number : n = nextId \/ request'[n] = request[n]
    BY <2>4
  <2>6. \A n \in Number : request'[n].kind \in Routed =>
          requestSession'[n] = request'[n].key \/ request'[n].key \in asked'
    BY <2>2, <2>3, <2>4 DEF PlacedInv
  <2>7. \A n \in Number : request'[n].kind = "executions" =>
          request'[n].key[1] \in executionRequests'
    BY <2>2, <2>4 DEF PlacedInv
  <2>8. /\ \A n \in lost' : request'[n].kind \in Routed
        /\ \A n \in lost' : request'[n].key \in asked'
    BY <2>2, <2>4 DEF PlacedInv, NothingLost, TypeOK
  <2> QED
    BY <2>2, <2>6, <2>7, <2>8 DEF PlacedInv, NothingLost
<1>7. CASE DrawOther
  <2>1. [kind |-> "other", key |-> NoKey] \in RequestType
    OBVIOUS
  <2>2. /\ DrawNumber([kind |-> "other", key |-> NoKey])
        /\ UNCHANGED <<requestSession, executionRequests, pc, job, asked, lost>>
    BY <1>7 DEF DrawOther, historyVars
  <2>3. /\ nextId \in Number /\ nextId \notin lost
        /\ request'[nextId] = [kind |-> "other", key |-> NoKey]
        /\ \A n \in Number : n # nextId => request'[n] = request[n]
    BY <1>5, <2>1, <2>2
  <2>4. \A n \in Number : request'[n].kind \in Routed =>
          requestSession'[n] = request'[n].key \/ request'[n].key \in asked'
    BY <2>2, <2>3 DEF PlacedInv
  <2>5. \A n \in Number : request'[n].kind = "executions" =>
          request'[n].key[1] \in executionRequests'
    BY <2>2, <2>3 DEF PlacedInv
  <2>6. \A n \in lost : n \in Number /\ n # nextId
    BY <2>3 DEF TypeOK
  <2>7. /\ \A n \in lost' : request'[n].kind \in Routed
        /\ \A n \in lost' : request'[n].key \in asked'
    BY <2>2, <2>3, <2>6 DEF PlacedInv, NothingLost
  <2> QED
    BY <2>2, <2>4, <2>5, <2>7 DEF PlacedInv, NothingLost
<1>8. CASE SendRequest
  BY <1>8 DEF PlacedInv, NothingLost, SendRequest, historyVars
<1>9. CASE CancelPositionsMulti
  BY <1>9 DEF PlacedInv, NothingLost, CancelPositionsMulti, historyVars
<1>10. CASE RequestErase
  BY <1>10 DEF PlacedInv, NothingLost, RequestErase, TypeOK, EntryInv
<1>11. CASE PushAnswer
  BY <1>11 DEF PlacedInv, NothingLost, PushAnswer, workVars
<1>12. ASSUME NEW n \in Number, NEW what \in {"answer", "end", "other"},
              Lookup(n, what)
       PROVE  PlacedInv' /\ NothingLost'
  <2>1. UNCHANGED <<workVars, request, asked>>
    BY <1>12 DEF Lookup
  <2>2. lost' \subseteq lost
          \cup {k \in {n} : request[k].kind \in Routed
                             /\ requestSession[k] = NoKey}
    BY <1>12 DEF Lookup
  <2>3. request[n].kind \in Routed => request[n].key \in Key
    BY DEF TypeOK
  <2>4. \A k \in lost' : request[k].kind \in Routed
                           /\ request[k].key \in asked
    BY <2>2, <2>3 DEF PlacedInv, NothingLost
  <2> QED
    BY <2>1, <2>4 DEF PlacedInv, NothingLost, workVars
<1>13. ASSUME NEW n \in Number, Answer(n) PROVE PlacedInv' /\ NothingLost'
  BY <1>12, <1>13 DEF Answer
<1>14. ASSUME NEW n \in Number, AnswersEnd(n)
       PROVE PlacedInv' /\ NothingLost'
  BY <1>12, <1>14 DEF AnswersEnd
<1>15. ASSUME NEW n \in Number, Error(n) PROVE PlacedInv' /\ NothingLost'
  BY <1>15 DEF Error, PlacedInv, NothingLost, workVars, historyVars
<1>16. ASSUME NEW n \in Number, OtherCallback(n)
       PROVE PlacedInv' /\ NothingLost'
  BY <1>12, <1>16 DEF OtherCallback
<1>17. ASSUME NEW n \in Number, CommissionReport(n)
       PROVE PlacedInv' /\ NothingLost'
  BY <1>17 DEF CommissionReport, PlacedInv, NothingLost, workVars
<1>18. ASSUME NEW n \in Number, NextValidId(n)
       PROVE PlacedInv' /\ NothingLost'
  BY <1>18 DEF NextValidId, PlacedInv, NothingLost, historyVars
<1> QED
  BY <1>1, <1>2, <1>3, <1>4, <1>6, <1>7, <1>8, <1>9, <1>10, <1>11, <1>13,
     <1>14, <1>15, <1>16, <1>17, <1>18, NextIsSteps DEF Steps

(* NothingLost: an answer that finds nobody belongs to a cancelled request.*)
THEOREM AnswersFound == Spec => []NothingLost
<1>1. Init => EntryInv /\ RoutedHome /\ PlacedInv /\ NothingLost
  BY NumberAssumption DEF Init, EntryInv, RoutedHome, PlacedInv, NothingLost,
     Routed, Subscription, NoRequest
<1> QED
  BY <1>1, EntryStep, PlacedStep, Typing, PTL DEF Spec

-----------------------------------------------------------------------------
(* One lookup at most is out when an entry is erased.                      *)
LEMMA LateStep ==
  TypeOK /\ EntryInv /\ LateInv /\ OneLate /\ [Next]_vars
    => LateInv' /\ OneLate'
<1> SUFFICES ASSUME TypeOK, EntryInv, LateInv, OneLate, [Next]_vars
             PROVE  LateInv' /\ OneLate'
  OBVIOUS
<1> USE NoKeyAssumption, NumberAssumption
<1> USE DEF Number, NoRequest, NoJob
<1>1. CASE UNCHANGED <<late, reader, cancelled, requestSession, nextId>>
  BY <1>1 DEF LateInv, OneLate
<1>2. CASE AddRequestSession
  <2>1. UNCHANGED <<late, reader, cancelled>> /\ nextId' = nextId + 1
    BY <1>2 DEF AddRequestSession, DrawNumber, historyVars
  <2>2. \A n \in Number : n < nextId =>
          requestSession'[n] = requestSession[n] /\ n < nextId'
    BY <1>2, <2>1 DEF AddRequestSession, TypeOK
  <2> QED
    BY <2>1, <2>2 DEF LateInv, OneLate
<1>3. CASE RequestErase
  <2>1. job.number \in Number /\ job.number < nextId
    BY <1>3 DEF RequestErase, EntryInv, TypeOK
  <2> QED
    BY <1>3, <2>1 DEF RequestErase, LateInv, OneLate, TypeOK
<1>4. CASE DrawOther
  <2>1. UNCHANGED <<late, reader, cancelled, requestSession>>
          /\ nextId' = nextId + 1
    BY <1>4 DEF DrawOther, DrawNumber, historyVars
  <2> QED
    BY <2>1 DEF LateInv, OneLate, TypeOK
<1>5. CASE PushAnswer
  <2>1. UNCHANGED <<cancelled, requestSession, nextId>> /\ reader' = {}
    BY <1>5 DEF PushAnswer, workVars
  <2>2. PICK r \in reader :
          late' = IF r.number \in cancelled /\ late[r.number] < 2
                  THEN [late EXCEPT ![r.number] = @ + 1] ELSE late
    BY <1>5 DEF PushAnswer
  <2>3. r.number \in Number /\ late[r.number] = 0
    BY <2>2 DEF LateInv, OneLate, TypeOK
  <2>4. \A n \in Number : late'[n] # late[n] =>
          n \in cancelled /\ late'[n] = 1
    BY <2>2, <2>3 DEF TypeOK
  <2> QED
    BY <2>1, <2>4 DEF LateInv, OneLate, TypeOK
<1>6. ASSUME NEW n \in Number, NEW what \in {"answer", "end", "other"},
             Lookup(n, what)
      PROVE  LateInv' /\ OneLate'
  <2>1. UNCHANGED <<late, cancelled, requestSession, nextId>>
    BY <1>6 DEF Lookup, workVars
  <2>2. \A r \in reader' :
          r \in reader \/ (r.number = n /\ requestSession[n] # NoKey)
    BY <1>6 DEF Lookup
  <2>3. late[n] = 1 => requestSession[n] = NoKey
    BY DEF LateInv
  <2>4. \A k \in Number : late'[k] = 1 => \A r \in reader' : r.number # k
    BY <2>1, <2>2, <2>3 DEF LateInv
  <2>5. \A k \in Number : /\ late'[k] # 0 => k \in cancelled'
                          /\ k \in cancelled' => requestSession'[k] = NoKey
                                                 /\ k < nextId'
    BY <2>1 DEF LateInv
  <2> QED
    BY <2>1, <2>4, <2>5 DEF LateInv, OneLate
<1>7. ASSUME NEW n \in Number, NextValidId(n) PROVE LateInv' /\ OneLate'
  <2>1. UNCHANGED <<late, reader, cancelled, requestSession>>
          /\ nextId' >= nextId /\ nextId' \in Nat /\ nextId \in Nat
    BY <1>7 DEF NextValidId, historyVars, TypeOK
  <2> QED
    BY <2>1 DEF LateInv, OneLate
<1>8. ASSUME NEW n \in Number, Answer(n) \/ AnswersEnd(n) \/ OtherCallback(n)
      PROVE LateInv' /\ OneLate'
  BY <1>6, <1>8 DEF Answer, AnswersEnd, OtherCallback
<1>9. ASSUME NEW n \in Number, Error(n) \/ CommissionReport(n)
      PROVE LateInv' /\ OneLate'
  BY <1>1, <1>9 DEF Error, CommissionReport, workVars, historyVars
<1>10. ASSUME NEW key \in Key, NEW kind \in Subscription,
              Executions(key) \/ RequestFind(key) \/ Subscribe(kind, key)
       PROVE LateInv' /\ OneLate'
  BY <1>1, <1>10 DEF Executions, RequestFind, Subscribe, historyVars
<1>11. CASE SendRequest \/ CancelPositionsMulti \/ UNCHANGED vars
  BY <1>1, <1>11 DEF SendRequest, CancelPositionsMulti, vars, workVars,
                     historyVars
<1>12. "positions" \in Subscription
  BY DEF Subscription
<1> QED
  BY <1>2, <1>3, <1>4, <1>5, <1>7, <1>8, <1>9, <1>10, <1>11, <1>12,
     NextIsSteps DEF Steps

(* OneLate: at most one answer is pushed after a cancel was handled.       *)
THEOREM CancelsHold == Spec => []OneLate
<1>1. Init => EntryInv /\ RoutedHome /\ LateInv /\ OneLate
  BY NumberAssumption DEF Init, EntryInv, RoutedHome, LateInv, OneLate, Number
<1> QED
  BY <1>1, EntryStep, LateStep, Typing, PTL DEF Spec
=============================================================================
