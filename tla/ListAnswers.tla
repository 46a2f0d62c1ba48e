----------------------------- MODULE ListAnswers -----------------------------
(***************************************************************************)
(* Requests for a list of contracts that a coroutine answers one by one:   *)
(* ContractDetails and AverageVolume of TwsSendWorker.cpp,                 *)
(* RequestFundamentalData of WebRequestWorker.cpp, RequestStats of         *)
(* requests/Stats.cpp.                                                     *)
(*                                                                         *)
(* The coroutine is resumed by whichever thread has the answer it waits    *)
(* for. Details are collected and pushed together as long as the thread    *)
(* stays the same, the others are pushed each for itself. Lists have no    *)
(* state in common but caches of values, so one list is modelled. Values   *)
(* are left out. External: TWS, the client library, the data base; each    *)
(* request to them is answered, if only with an error.                     *)
(***************************************************************************)
EXTENDS Integers, Sequences

CONSTANT MaxItems   (* bound: contracts of a list                          *)

ASSUME ItemsAssumption == MaxItems \in Nat

Item == 1..MaxItems
Kind == {"details", "volume", "fundamentals", "stats"}

VARIABLES
  kind,      (* which request                                              *)
  size,      (* how many contracts it names                                *)
  pc,        (* where the coroutine stands                                 *)
  next,      (* the contract it works on                                   *)
  messages,  (* ContractDetails: the vector of results                     *)
  pushed     (* history: the messages the client was sent                  *)

vars == <<kind, size, pc, next, messages, pushed>>

Init ==
  /\ kind \in Kind
  /\ size \in 0..MaxItems
  /\ pc = "start"
  /\ next = 1
  /\ messages = {}
  /\ pushed = <<>>

Push(items, last) ==
  pushed' = Append(pushed, [items |-> items, last |-> last])

(* The loops: a list without contracts leaves them at once.                *)
Start ==
  /\ pc = "start"
  /\ pc' = IF size = 0 THEN "after" ELSE "item"
  /\ UNCHANGED <<kind, size, next, messages, pushed>>

NextItem(after) ==
  /\ next' = IF next = size THEN 1 ELSE next + 1
  /\ pc' = IF next = size THEN after ELSE "item"

-----------------------------------------------------------------------------
(* ContractDetails. A contract that has no details is answered, too.       *)

(* Fault: MultiEnd goes out with each batch.                               *)
DetailEndsEach(moved) ==
  /\ kind = "details" /\ pc = "item"
  /\ messages' = messages \cup {next}
  /\ IF next = size \/ moved
     THEN Push(messages', "ended")
     ELSE UNCHANGED pushed
  /\ NextItem("done")
  /\ UNCHANGED <<kind, size>>

(* The results so far are pushed when the thread has changed, or after the *)
(* last one, with MultiEnd. Push copies them: they are pushed again.       *)
Detail(moved) ==
  /\ kind = "details" /\ pc = "item"
  /\ messages' = messages \cup {next}
  /\ IF next = size \/ moved
     THEN Push(messages', IF next = size THEN "ended" ELSE "open")
     ELSE UNCHANGED pushed
  /\ NextItem("done")
  /\ UNCHANGED <<kind, size>>

-----------------------------------------------------------------------------
(* AverageVolume: 0 if there are no bars. One contract has no end mark.    *)
Volume ==
  /\ kind = "volume" /\ pc = "item"
  /\ Push({next}, IF size = 1 THEN "ended" ELSE "open")
  /\ NextItem(IF size = 1 THEN "done" ELSE "after")
  /\ UNCHANGED <<kind, size, messages>>

VolumeEnd ==
  /\ kind = "volume" /\ pc = "after"
  /\ IF size > 1 THEN Push({}, "ended") ELSE UNCHANGED pushed
  /\ pc' = "done"
  /\ UNCHANGED <<kind, size, next, messages>>

-----------------------------------------------------------------------------
(* RequestFundamentalData: ratios, or an error for the contract.           *)

(* Fault: the handler is around the loop.                                  *)
FundamentalsLeft ==
  /\ kind = "fundamentals" /\ pc = "item"
  /\ \/ Push({next}, "open") /\ NextItem("after")
     \/ pc' = "done" /\ UNCHANGED <<next, pushed>>
  /\ UNCHANGED <<kind, size, messages>>

Fundamentals ==
  /\ kind = "fundamentals" /\ pc = "item"
  /\ Push({next}, "open")
  /\ NextItem("after")
  /\ UNCHANGED <<kind, size, messages>>

FundamentalsEnd ==
  /\ kind = "fundamentals" /\ pc = "after"
  /\ Push({}, "ended")
  /\ pc' = "done"
  /\ UNCHANGED <<kind, size, next, messages>>

-----------------------------------------------------------------------------
(* RequestStats.                                                           *)

(* The contract and when its history begins, if TWS knows.                 *)
StatsContract ==
  /\ kind = "stats" /\ pc = "item"
  /\ NextItem("after")
  /\ UNCHANGED <<kind, size, messages, pushed>>

(* What is stored is pushed, if anything is.                               *)
StatsStored ==
  /\ kind = "stats" /\ pc = "after" /\ size > 0
  /\ \E items \in SUBSET (1..size) :
       IF items = {} THEN UNCHANGED pushed ELSE Push(items, "open")
  /\ pc' = "compute"
  /\ UNCHANGED <<kind, size, next, messages>>

(* What has to be computed for a contract: some of what was asked for.     *)
StatsComputed ==
  /\ kind = "stats" /\ pc = "compute"
  /\ Push({next}, "open") \/ UNCHANGED pushed
  /\ next' = IF next = size THEN 1 ELSE next + 1
  /\ pc' = IF next = size THEN "end" ELSE "compute"
  /\ UNCHANGED <<kind, size, messages>>

(* The end is an answer without statistics.                                *)
StatsEnd ==
  /\ kind = "stats" /\ pc = "end"
  /\ Push({}, "ended")
  /\ pc' = "done"
  /\ UNCHANGED <<kind, size, next, messages>>

(* A contract TWS does not know, the data base fails, or no contracts are  *)
(* named: the error is the last message.                                   *)
StatsFails ==
  /\ kind = "stats" /\ pc \in {"start", "item", "after", "compute"}
  /\ Push({}, "failed")
  /\ pc' = "done"
  /\ UNCHANGED <<kind, size, next, messages>>

-----------------------------------------------------------------------------
Next ==
  \/ Start
  \/ \E moved \in BOOLEAN : Detail(moved)
  \/ Volume \/ VolumeEnd
  \/ Fundamentals \/ FundamentalsEnd
  \/ StatsContract \/ StatsStored \/ StatsComputed \/ StatsEnd \/ StatsFails

Spec == Init /\ [][Next]_vars

(* What the coroutine waits for comes, or fails.                           *)
FairSpec == Spec /\ WF_vars(Next)

-----------------------------------------------------------------------------
Got == UNION {pushed[n].items : n \in DOMAIN pushed}

Status == IF pushed = <<>> THEN "open" ELSE pushed[Len(pushed)].last

(* Statistics are owed to no contract: there may be none.                  *)
Owed == IF kind = "stats" THEN {} ELSE 1..size

Promise == INSTANCE ListAnswer WITH owed <- Owed, got <- Got, status <- Status

(* The end mark of a list comes after everything that belongs to it, once, *)
(* and nothing comes after it: though results are pushed from different    *)
(* threads, in batches that are pushed again, and some contracts fail.     *)
ImplementsListAnswer == Promise!Spec

(* Every list ends with an end mark or an error; but for a list without    *)
(* contracts, for which ContractDetails and AverageVolume send nothing.    *)
EveryListEnds ==
  size > 0 \/ kind \in {"fundamentals", "stats"} => <>(Status # "open")

-----------------------------------------------------------------------------
(* Why ImplementsListAnswer holds: until it is done the list is open, and  *)
(* the contracts before the one it works on have been answered, or are     *)
(* among the results to push.                                              *)
Message == [items : SUBSET Item, last : {"open", "ended", "failed"}]

TypeOK ==
  /\ kind \in Kind
  /\ size \in 0..MaxItems
  /\ pc \in {"start", "item", "after", "compute", "end", "done"}
  /\ next \in 1..MaxItems + 1
  /\ messages \subseteq Item
  /\ pushed \in Seq(Message)

OpenInv == pc # "done" => Status = "open"

WorkInv ==
  /\ pc = "start" => next = 1 /\ messages = {} /\ Got = {}
  /\ pc \in {"item", "compute"} => next <= size
  /\ pc = "item" /\ kind = "details" => messages = 1..(next - 1)
  /\ pc = "item" /\ kind \in {"volume", "fundamentals"} =>
       Got = 1..(next - 1)
  /\ pc = "after" /\ kind \in {"volume", "fundamentals"} => Got = 1..size
  /\ pc = "after" => next = 1

Inv == TypeOK /\ OpenInv /\ WorkInv
=============================================================================
