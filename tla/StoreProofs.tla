----------------------------- MODULE StoreProofs -----------------------------
(***************************************************************************)
(* Proofs about the two components that keep what they have found, for any *)
(* values of their constants: TweetSearch, then FlexCache.                 *)
(*                                                                         *)
(* TweetSearch. A search with the lock of its symbol is alone with the     *)
(* cache, the file and the history of that symbol (LockInv), so what the   *)
(* others and the other symbols are about is not touched by its steps      *)
(* (OthersKept). What a store must have (Held, Wanted) only gets less,     *)
(* but for the step that stores (WantedShrinks, HeldShrinks). It remains   *)
(* to be shown, step by step, that a search loses nothing it has.          *)
(***************************************************************************)
EXTENDS TweetSearch, FlexCache, TLAPS

-----------------------------------------------------------------------------
(* Where a coroutine stands.                                               *)
Place == Inside \cup {"ended", "waiting", "authors", "success"}

(* What can be done to the variables of a search, field by field.          *)
LEMMA NewJobFields ==
  ASSUME NEW s \in Symbol
  PROVE  /\ NewJob(s) \in Job
         /\ NewJob(s).symbol = s /\ NewJob(s).page < MaxPages
         /\ NewJob(s).blocked = {} /\ NewJob(s).spammers = {}
<1>1. 0 \in 0..MaxPages /\ NoTweets \in Tweets
  BY PagesAssumption DEF NoTweets, Tweets
<1> QED
  BY <1>1, PagesAssumption DEF NewJob, Job

LEMMA FetchedFields ==
  ASSUME NEW j \in Job
  PROVE  /\ Fetched(j) \in Job /\ Fetched(j).page < MaxPages
         /\ Fetched(j).symbol = j.symbol /\ Fetched(j).found = j.found
         /\ Fetched(j).blocked = j.blocked /\ Fetched(j).spammers = j.spammers
<1>1. 0 \in 0..MaxPages /\ 0 < MaxPages
  BY PagesAssumption
<1>2. Fetched(j) \in Job /\ Fetched(j).page < MaxPages
  BY <1>1 DEF Fetched, Job
<1>3. Fetched(j).symbol = j.symbol /\ Fetched(j).found = j.found
  BY DEF Fetched, Job
<1>4. Fetched(j).blocked = j.blocked /\ Fetched(j).spammers = j.spammers
  BY DEF Fetched, Job
<1> QED
  BY <1>2, <1>3, <1>4

LEMMA CheckedFields ==
  ASSUME NEW j \in Job
  PROVE  /\ Checked(j) \in Job /\ Checked(j).page < MaxPages
         /\ Checked(j).symbol = j.symbol
         /\ Checked(j).found.values = j.found.values
         /\ Checked(j).found.upTo = j.now
         /\ Checked(j).blocked = j.blocked /\ Checked(j).spammers = j.spammers
<1> DEFINE k == [j EXCEPT !.found.upTo = j.now, !.found.fresh = j.recent]
<1>1. k \in Job
  BY DEF Tweets, Job
<1>2. k.found.values = j.found.values /\ k.found.upTo = j.now
  BY DEF Tweets, Job
<1>3. k.symbol = j.symbol /\ k.blocked = j.blocked /\ k.spammers = j.spammers
  BY DEF Tweets, Job
<1> QED
  BY <1>1, <1>2, <1>3, FetchedFields DEF Checked

(* A page that was missed.                                                 *)
LEMMA MissedPageFields ==
  ASSUME NEW j \in Job, j.page < MaxPages
  PROVE  LET next == [j EXCEPT !.page = @ + 1]
         IN /\ next \in Job /\ next.page = j.page + 1
            /\ next.symbol = j.symbol /\ next.found = j.found
            /\ next.spammers = j.spammers /\ next.window = j.window
            /\ next.now = j.now /\ next.blocked = j.blocked
<1>1. j.page + 1 \in 0..MaxPages
  BY PagesAssumption DEF Job
<1> QED
  BY <1>1 DEF Job

-----------------------------------------------------------------------------
(* Tweets only get older, and what was recorded or skipped stays so: what  *)
(* a store must have only gets less.                                       *)
Onward == /\ \A t \in Tweet : age'[t] \in Nat /\ age[t] <= age'[t]
          /\ recorded \subseteq recorded'
          /\ \A s \in Symbol : skipped[s] \subseteq skipped'[s]

LEMMA WantedShrinks ==
  ASSUME TypeOK, Onward
  PROVE  /\ \A s \in Symbol : Wanted'[s] \subseteq Wanted[s]
         /\ Published \subseteq Published'
BY DEF TypeOK, Onward, Wanted, Published

LEMMA HeldShrinks ==
  ASSUME TypeOK, Onward, NEW s \in Symbol, kept'[s] \subseteq kept[s]
  PROVE  Held'[s] \subseteq Held[s]
BY DEF TypeOK, Onward, Held

LEMMA OnwardIf ==
  ASSUME TypeOK, age' = age, recorded \subseteq recorded',
         \/ skipped' = skipped
         \/ \E s \in Symbol, tweets \in SUBSET Tweet :
              skipped' = [skipped EXCEPT ![s] = @ \cup tweets]
  PROVE  Onward
BY DEF TypeOK, Onward

(* A step of c that stores nothing leaves alone what the others and the    *)
(* stores are about.                                                       *)
Alone(c) == /\ \A d \in Search \ {c} : job'[d] = job[d] /\ pc'[d] = pc[d]
            /\ UNCHANGED <<cache, file, kept>>

LEMMA OthersKept ==
  ASSUME Inv, TypeOK', Onward, NEW c \in Coroutine, Alone(c)
  PROVE  /\ StoreInv'
         /\ \A d \in Search \ {c} : job'[d] # None => SearchInv(d)'
<1>1. \A s \in Symbol : /\ Wanted'[s] \subseteq Wanted[s]
                        /\ Held'[s] \subseteq Held[s]
  BY WantedShrinks, HeldShrinks DEF Inv, Alone
<1>2. StoreInv'
  BY <1>1 DEF Inv, StoreInv, Sound, Alone
<1>3. ASSUME NEW d \in Search \ {c}, job'[d] # None PROVE SearchInv(d)'
  <2>1. /\ job'[d] = job[d] /\ pc'[d] = pc[d] /\ file' = file
        /\ job[d] \in Job /\ job[d].symbol \in Symbol
        /\ recorded \subseteq recorded'
    BY <1>3 DEF Inv, TypeOK, Alone, Onward, Job
  <2>2. SearchInv(d)
    BY <1>3, <2>1 DEF Inv
  <2>3. Published \subseteq Published'
    BY WantedShrinks DEF Inv
  <2> QED
    BY <1>1, <2>1, <2>2, <2>3 DEF SearchInv
<1> QED
  BY <1>2, <1>3

(* A step of a search that stores nothing, and takes no lock.              *)
LEMMA SearchMoves ==
  ASSUME Inv, TypeOK', UserInv', Onward, NEW c \in Search, Alone(c), BlockInv',
         pc'[c] \in Inside =>
           pc[c] \in Inside /\ job'[c].symbol = job[c].symbol,
         job'[c] # None => SearchInv(c)'
  PROVE  Inv'
<1>1. LockInv'
  BY DEF Inv, LockInv, Alone
<1>2. StoreInv' /\ \A d \in Search \ {c} : job'[d] # None => SearchInv(d)'
  BY OthersKept DEF Coroutine
<1> QED
  BY <1>1, <1>2 DEF Inv

-----------------------------------------------------------------------------
(* The steps of a search, one by one.                                      *)

LEMMA AcquireStep == ASSUME Inv, NEW c \in Search, Acquire(c) PROVE Inv'
<1> USE DEF Acquire, historyVars
<1>1. TypeOK' /\ UserInv' /\ BlockInv'
  BY DEF Inv, TypeOK, UserInv, BlockInv, Blocking, Inside, Coroutine
<1>2. Onward /\ Alone(c)
  BY OnwardIf DEF Inv, TypeOK, Alone, Coroutine
<1>3. LockInv'
  BY DEF Inv, TypeOK, LockInv, Coroutine
<1>4. StoreInv' /\ \A d \in Search \ {c} : job'[d] # None => SearchInv(d)'
  BY <1>1, <1>2, OthersKept DEF Coroutine
<1>5. /\ pc'[c] = "load" /\ pc[c] = "waiting"
      /\ job' = job /\ recorded' = recorded
  BY DEF Inv, TypeOK, Coroutine
<1>6. SearchInv(c)'
  BY <1>5 DEF Inv, TypeOK, SearchInv, Blocking, Inside
<1> QED
  BY <1>1, <1>3, <1>4, <1>6 DEF Inv

LEMMA SearchBeginsStep ==
  ASSUME Inv, NEW c \in Search, NEW s \in Symbol, SearchBegins(c, s)
  PROVE  Inv'
<1> USE DEF SearchBegins, historyVars
<1>1. job'[c] = NewJob(s) /\ pc'[c] = "waiting"
  BY DEF Inv, TypeOK, Coroutine
<1>2. TypeOK' /\ UserInv' /\ BlockInv'
  BY NewJobFields, NoneAssumption
     DEF Inv, TypeOK, UserInv, BlockInv, Blocking, Inside, Coroutine
<1>3. Onward /\ Alone(c)
  BY OnwardIf DEF Inv, TypeOK, Alone, Coroutine
<1>4. SearchInv(c)'
  BY <1>1, NewJobFields DEF SearchInv, Blocking, Inside
<1> QED
  BY <1>1, <1>2, <1>3, <1>4, SearchMoves DEF Inside

(* The search is over, and has recorded no more.                           *)
LEMMA EndsStep ==
  ASSUME Inv, NEW c \in Search,
         SelectFails(c) \/ SearchFails(c) \/ SendAuthors(c)
  PROVE  Inv'
<1> USE DEF SelectFails, SearchFails, SendAuthors, Ends, historyVars
<1>1. job'[c] = None /\ pc'[c] = "ended"
  BY DEF Inv, TypeOK, Coroutine
<1>2. TypeOK' /\ UserInv' /\ BlockInv'
  BY NoneAssumption
     DEF Inv, TypeOK, UserInv, BlockInv, Blocking, Inside, Coroutine
<1>3. Onward /\ Alone(c)
  BY OnwardIf DEF Inv, TypeOK, Alone, Coroutine
<1> QED
  BY <1>1, <1>2, <1>3, SearchMoves DEF Inside

LEMMA CacheTagsFailsStep ==
  ASSUME Inv, NEW c \in Search, CacheTagsFails(c) PROVE Inv'
<1> USE DEF CacheTagsFails, Ends, historyVars
<1>1. job'[c] = None /\ pc'[c] = "ended"
  BY DEF Inv, TypeOK, Coroutine
<1>2. job[c].blocked \cup job[c].spammers \subseteq recorded
  BY DEF Inv, TypeOK, SearchInv
<1>3. TypeOK' /\ UserInv' /\ BlockInv'
  BY <1>2, NoneAssumption
     DEF Inv, TypeOK, UserInv, BlockInv, Blocking, Inside, Coroutine
<1>4. Onward /\ Alone(c)
  BY OnwardIf DEF Inv, TypeOK, Alone, Coroutine
<1> QED
  BY <1>1, <1>3, <1>4, SearchMoves DEF Inside

(* A step that changes where the search stands, CanBlock and whom it       *)
(* blocks, and nothing else.                                               *)
LEMMA PlaceMoves ==
  ASSUME Inv, TypeOK', UserInv', NEW c \in Search,
         UNCHANGED <<age, blocks, cache, file, recorded, job, historyVars>>,
         \A d \in Search \ {c} : pc'[d] = pc[d],
         \/ pc[c] = "block" /\ pc'[c] \in {"asking", "record"}
         \/ pc[c] = "asking" /\ pc'[c] \in {"refused", "granted"}
         \/ pc[c] \in {"refused", "granted"} /\ pc'[c] = "record"
         \/ pc[c] = "save" /\ pc'[c] = "saving"
  PROVE  Inv'
<1> USE DEF historyVars
<1>1. BlockInv' /\ Onward /\ Alone(c)
  BY OnwardIf DEF Inv, BlockInv, Alone
<1>2. SearchInv(c)
  BY DEF Inv, TypeOK
<1>3. Wanted' = Wanted /\ Held' = Held /\ Published' = Published
  BY DEF Wanted, Held, Published
<1>4. SearchInv(c)'
  BY <1>2, <1>3 DEF SearchInv, Blocking, Inside
<1> QED
  BY <1>1, <1>4, SearchMoves DEF Inside

LEMMA BlockSpammerStep ==
  ASSUME Inv, NEW c \in Search, BlockSpammer(c) PROVE Inv'
<1> USE DEF BlockSpammer, BlockAuthor
<1>1. job[c].todo \subseteq Author
  BY DEF Inv, TypeOK, Coroutine, Job
<1>2. /\ pc[c] = "block" /\ pc'[c] \in {"asking", "record"}
      /\ \A d \in Search \ {c} : pc'[d] = pc[d]
  BY DEF Inv, TypeOK, Coroutine
<1>3. TypeOK' /\ UserInv'
  BY <1>1 DEF Inv, TypeOK, UserInv, Blocking, Inside, Coroutine, historyVars
<1> QED
  BY <1>2, <1>3, PlaceMoves

LEMMA Block2Step ==
  ASSUME Inv, NEW c \in Search, NEW error \in BOOLEAN, Block2(c, error)
  PROVE  Inv'
<1> USE DEF Block2
<1>1. /\ pc[c] = "asking" /\ pc'[c] \in {"refused", "granted"}
      /\ \A d \in Search \ {c} : pc'[d] = pc[d]
  BY DEF Inv, TypeOK, Coroutine
<1>2. user[c] \in Author
  BY <1>1 DEF Inv, UserInv, Blocking, Coroutine
<1>3. TypeOK' /\ UserInv'
  BY <1>2 DEF Inv, TypeOK, UserInv, Blocking, Inside, Coroutine, historyVars
<1> QED
  BY <1>1, <1>3, PlaceMoves

LEMMA SpammerAnsweredStep ==
  ASSUME Inv, NEW c \in Search, SpammerAnswered(c) PROVE Inv'
<1> USE DEF SpammerAnswered
<1>1. /\ pc[c] \in {"refused", "granted"} /\ pc'[c] = "record"
      /\ \A d \in Search \ {c} : pc'[d] = pc[d]
  BY DEF Inv, TypeOK, Coroutine
<1>2. TypeOK' /\ UserInv'
  BY DEF Inv, TypeOK, UserInv, Blocking, Inside, Coroutine, historyVars
<1> QED
  BY <1>1, <1>2, PlaceMoves

LEMMA SaveBeginsStep ==
  ASSUME Inv, NEW c \in Search, SaveBegins(c) PROVE Inv'
<1> USE DEF SaveBegins
<1>1. /\ pc[c] = "save" /\ pc'[c] = "saving"
      /\ \A d \in Search \ {c} : pc'[d] = pc[d]
  BY DEF Inv, TypeOK, Coroutine
<1>2. TypeOK' /\ UserInv'
  BY DEF Inv, TypeOK, UserInv, Blocking, Inside, Coroutine, historyVars
<1> QED
  BY <1>1, <1>2, PlaceMoves

LEMMA LoadStep == ASSUME Inv, NEW c \in Search, Load(c) PROVE Inv'
<1> DEFINE s == job[c].symbol
           existing == Existing(s)
           found == [existing EXCEPT !.values = {t \in @ : age[t] < 3}]
<1> USE DEF historyVars
<1>1. pc[c] = "load" /\ job[c] \in Job /\ s \in Symbol /\ SearchInv(c)
  BY NoneAssumption DEF Load, Inv, TypeOK, Coroutine, Job
<1>2. /\ existing \in Tweets /\ found \in Tweets
      /\ found.values = {t \in existing.values : age[t] < 3}
      /\ found.upTo = existing.upTo
  <2>1. existing \in Tweets
    BY <1>1 DEF Existing, NoTweets, Tweets, Inv, TypeOK
  <2> QED
    BY <2>1 DEF Tweets
<1>3. /\ Held[s] \subseteq found.values
      /\ Wanted[s] \cap found.upTo \subseteq found.values
  <2>1. /\ Held[s] \subseteq existing.values
        /\ Wanted[s] \cap existing.upTo \subseteq existing.values
    BY <1>1 DEF Existing, NoTweets, Inv, StoreInv, Sound
  <2>2. \A t \in Held[s] \cup Wanted[s] : age[t] < 3
    BY <1>1 DEF Held, Wanted, Inv, TypeOK
  <2> QED
    BY <1>2, <2>1, <2>2
<1>4. Alone(c) /\ Onward
  BY OnwardIf DEF Load, Inv, TypeOK, Alone, Coroutine
<1>5. Wanted' = Wanted /\ Held' = Held /\ Published' = Published
  BY DEF Load, Wanted, Held, Published
<1>6. CASE existing.fresh /\ existing.values # {}
  <2>1. pc'[c] = "authors" /\ job' = job /\ recorded' = recorded
    BY <1>1, <1>6 DEF Load, Inv, TypeOK, Coroutine
  <2>2. TypeOK' /\ UserInv' /\ BlockInv'
    BY <1>6
       DEF Load, Inv, TypeOK, UserInv, BlockInv, Blocking, Inside, Coroutine
  <2>3. SearchInv(c)'
    BY <1>1, <2>1 DEF SearchInv, Blocking, Inside
  <2> QED
    BY <1>4, <2>1, <2>2, <2>3, SearchMoves DEF Inside
<1>7. CASE ~(existing.fresh /\ existing.values # {})
  <2> DEFINE k == [job[c] EXCEPT !.found = found, !.now = Published,
                                 !.recent = TRUE]
  <2>1. /\ pc' = [pc EXCEPT ![c] = "select"] /\ job' = [job EXCEPT ![c] = k]
        /\ recorded' = recorded
    BY <1>7 DEF Load
  <2>2. /\ k \in Job /\ k.found = found /\ k.now = Published /\ k.symbol = s
        /\ k.page = job[c].page /\ k.blocked = job[c].blocked
        /\ k.spammers = job[c].spammers
    BY <1>1, <1>2 DEF Job, Published
  <2>3. pc'[c] = "select" /\ job'[c] = k
    BY <2>1 DEF Inv, TypeOK, Coroutine
  <2>4. TypeOK' /\ UserInv' /\ BlockInv'
    BY <2>1, <2>2, NoneAssumption
       DEF Load, Inv, TypeOK, UserInv, BlockInv, Blocking, Inside, Coroutine
  <2>5. SearchInv(c)'
    BY <1>1, <1>3, <1>5, <2>1, <2>2, <2>3 DEF SearchInv, Blocking, Inside
  <2> QED
    BY <1>1, <1>4, <2>2, <2>3, <2>4, <2>5, SearchMoves DEF Inside
<1> QED
  BY <1>6, <1>7

LEMMA SelectStep == ASSUME Inv, NEW c \in Search, Select(c) PROVE Inv'
<1> USE DEF historyVars
<1> DEFINE j == job[c]
<1>1. pc[c] = "select" /\ j \in Job /\ j.symbol \in Symbol /\ SearchInv(c)
  BY NoneAssumption DEF Select, Inv, TypeOK, Coroutine, Job
<1>2. PICK users \in IF blocks = {} THEN {recorded} ELSE blocks,
           old \in SUBSET j.found.upTo :
        /\ blocks' = {users}
        /\ job' = [job EXCEPT
             ![c].blocked = users,
             ![c].window = {t \in Tweet : /\ age[t] = 1
                                          /\ t \in j.found.upTo => t \in old}]
  BY DEF Select
<1> DEFINE window == {t \in Tweet : /\ age[t] = 1
                                    /\ t \in j.found.upTo => t \in old}
           k == [j EXCEPT !.blocked = users, !.window = window]
<1>3. users \subseteq recorded /\ recorded \subseteq Author
  BY DEF Inv, TypeOK, BlockInv
<1>4. /\ k \in Job /\ k.found = j.found /\ k.now = j.now
      /\ k.symbol = j.symbol /\ k.page = j.page /\ k.spammers = j.spammers
      /\ k.blocked = users /\ k.window = window
  BY <1>1, <1>3 DEF Job
<1>5. job' = [job EXCEPT ![c] = k] /\ pc' = [pc EXCEPT ![c] = "fetch"]
  BY <1>2 DEF Select, Inv, TypeOK
<1>6. job'[c] = k /\ pc'[c] = "fetch"
  BY <1>5 DEF Inv, TypeOK, Coroutine
<1>7. Alone(c) /\ Onward
  BY <1>5, OnwardIf DEF Select, Inv, TypeOK, Alone, Coroutine
<1>8. TypeOK' /\ UserInv' /\ BlockInv'
  <2>1. job' \in [Search -> Job \cup {None}] /\ job'[c] # None
    BY <1>4, <1>5, NoneAssumption DEF Inv, TypeOK
  <2>2. blocks' \subseteq SUBSET Author /\ BlockInv'
    BY <1>2, <1>3 DEF Select, BlockInv
  <2>3. UserInv'
    BY <1>5 DEF Select, Inv, TypeOK, UserInv, Blocking
  <2>4. pc' \in [Coroutine -> Place]
    BY <1>5 DEF Inv, TypeOK, Place, Inside
  <2>5. \A d \in Search : pc'[d] # "ended" => job'[d] # None
    BY <1>1, <1>5, <2>1 DEF Inv, TypeOK
  <2> QED
    BY <2>1, <2>2, <2>3, <2>4, <2>5 DEF Select, Inv, TypeOK, Place
<1>9. \A t \in Wanted[j.symbol] \cap j.now :
        t \in j.found.values \cup window \/ author[t] \in j.spammers
  <2> SUFFICES ASSUME NEW t \in Wanted[j.symbol] \cap j.now,
                      t \notin j.found.upTo
               PROVE  t \in window
    BY <1>1 DEF SearchInv, Inside
  <2>1. t \in Published
    BY <1>1 DEF SearchInv
  <2>2. t \in Tweet /\ age[t] <= 1 /\ age[t] > 0 /\ age[t] \in 0..3
    BY <1>1, <2>1 DEF Wanted, Published, Inv, TypeOK
  <2> QED
    BY <2>2
<1>10. SearchInv(c)'
  <2>1. Wanted' = Wanted /\ Held' = Held /\ recorded' = recorded
    BY DEF Select, Wanted, Held
  <2> QED
    BY <1>1, <1>3, <1>4, <1>6, <1>9, <2>1 DEF SearchInv, Blocking, Inside
<1> QED
  BY <1>1, <1>4, <1>6, <1>7, <1>8, <1>10, SearchMoves DEF Inside

(* A page is turned: what is on it is found, written by somebody who is    *)
(* recorded or by an author of spam that is known now, or spam itself.     *)
Turns(c, tweets, k) ==
  LET j == job[c] IN
  /\ pc[c] = "fetch" /\ tweets \subseteq j.window
  /\ k \in Job /\ k.symbol = j.symbol /\ k.blocked = j.blocked
  /\ k.page < MaxPages
  /\ j.found.values \subseteq k.found.values
  /\ j.spammers \subseteq k.spammers
  /\ \A t \in tweets \ Spam :
       t \in k.found.values \/ author[t] \in k.blocked \cup k.spammers
  /\ job' = [job EXCEPT ![c] = k]
  /\ \/ /\ pc' = [pc EXCEPT ![c] = "push"]
        /\ k.found.upTo = j.now
        /\ skipped' = [skipped EXCEPT
                         ![j.symbol] = @ \cup ((j.window \ tweets) \ Spam)]
     \/ /\ pc' = pc
        /\ k.found.upTo = j.found.upTo /\ k.now = j.now
        /\ k.window = j.window \ tweets
        /\ skipped' = skipped
  /\ UNCHANGED <<age, canBlock, blocks, cache, file, recorded, atTwitter, user,
                 kept>>

LEMMA TurnsStep ==
  ASSUME Inv, NEW c \in Search, NEW tweets, NEW k, Turns(c, tweets, k)
  PROVE  Inv'
<1> DEFINE j == job[c]
<1>1. j \in Job /\ j.symbol \in Symbol /\ SearchInv(c)
  BY NoneAssumption DEF Turns, Inv, TypeOK, Coroutine, Job
<1>2. job'[c] = k /\ pc'[c] \in {"push", "fetch"}
  BY DEF Turns, Inv, TypeOK, Coroutine
<1>3. skipped' \in [Symbol -> SUBSET Tweet]
  BY <1>1 DEF Turns, Inv, TypeOK, Job
<1>4. TypeOK' /\ UserInv' /\ BlockInv'
  BY <1>3, NoneAssumption
     DEF Turns, Inv, TypeOK, UserInv, BlockInv, Blocking, Inside, Coroutine
<1>5. Alone(c) /\ Onward
  <2>1. Alone(c)
    BY DEF Turns, Inv, TypeOK, Alone, Coroutine
  <2>2. (j.window \ tweets) \ Spam \in SUBSET Tweet
    BY <1>1 DEF Job
  <2> QED
    BY <1>1, <2>1, <2>2, OnwardIf DEF Turns, Inv
<1>6. Wanted'[j.symbol] \subseteq Wanted[j.symbol] /\ Held' = Held
  BY <1>1, <1>5, WantedShrinks DEF Turns, Held, Inv
<1>7. \A t \in Wanted'[j.symbol] : /\ author[t] \notin j.blocked
                                   /\ t \notin Spam \cup skipped'[j.symbol]
  BY <1>1 DEF Turns, SearchInv, Wanted
<1>8. CASE pc' = pc
  <2>1. /\ k.found.upTo = j.found.upTo /\ k.now = j.now
        /\ k.window = j.window \ tweets /\ pc'[c] = "fetch"
    BY <1>8 DEF Turns, Inv, TypeOK, Coroutine
  <2>2. SearchInv(c)'
    BY <1>1, <1>2, <1>6, <1>7, <2>1 DEF Turns, SearchInv, Blocking, Inside
  <2> QED
    BY <1>1, <1>2, <1>4, <1>5, <2>1, <2>2, SearchMoves DEF Turns, Inside
<1>9. CASE pc' = [pc EXCEPT ![c] = "push"]
  <2>1. /\ k.found.upTo = j.now /\ pc'[c] = "push"
        /\ skipped'[j.symbol] =
             skipped[j.symbol] \cup ((j.window \ tweets) \ Spam)
    BY <1>1, <1>9 DEF Turns, Inv, TypeOK, Coroutine
  <2>2. SearchInv(c)'
    BY <1>1, <1>2, <1>6, <1>7, <2>1 DEF Turns, SearchInv, Blocking, Inside
  <2> QED
    BY <1>1, <1>2, <1>4, <1>5, <2>1, <2>2, SearchMoves DEF Turns, Inside
<1> QED
  BY <1>8, <1>9 DEF Turns

LEMMA FetchPageStep == ASSUME Inv, NEW c \in Search, FetchPage(c) PROVE Inv'
<1> DEFINE j == job[c]
<1>1. /\ pc[c] = "fetch" /\ j \in Job /\ j.page < MaxPages
      /\ j.window \subseteq Tweet /\ j.spammers \subseteq Author
  BY NoneAssumption DEF FetchPage, Inv, TypeOK, SearchInv, Coroutine, Job
<1> DEFINE known == j.blocked \cup j.spammers
           fromNew(tweets) == {t \in tweets : author[t] \notin known}
           new(tweets) == By(fromNew(tweets) \cap Spam)
           last(tweets) == tweets = j.window \/ j.page + 1 = MaxPages
           next(tweets, values) == [j EXCEPT !.found.values = @ \cup values,
                                             !.spammers = @ \cup new(tweets),
                                             !.window = @ \ tweets,
                                             !.page = @ + 1]
           page(tweets, values) ==
             /\ \A t \in fromNew(tweets) \ Spam :
                  author[t] \notin new(tweets) => t \in values
             /\ job' = [job EXCEPT ![c] =
                          IF last(tweets) THEN Checked(next(tweets, values))
                          ELSE next(tweets, values)]
             /\ pc' = [pc EXCEPT ![c] =
                         IF last(tweets) THEN "push" ELSE "fetch"]
             /\ skipped' = [skipped EXCEPT ![j.symbol] =
                  IF last(tweets) THEN @ \cup ((j.window \ tweets) \ Spam)
                  ELSE @]
<1>2. PICK tweets \in SUBSET j.window :
        \E values \in SUBSET (fromNew(tweets) \ Spam) : page(tweets, values)
  BY DEF FetchPage
<1>3. PICK values \in SUBSET (fromNew(tweets) \ Spam) : page(tweets, values)
  BY <1>2
<1> DEFINE users == new(tweets)
           n == next(tweets, values)
<1>4. users \subseteq Author /\ values \subseteq Tweet
  BY <1>1, TweetAssumption DEF By
<1>5. /\ n \in Job /\ n.page = j.page + 1
      /\ n.symbol = j.symbol
      /\ n.found.values = j.found.values \cup values
      /\ n.found.upTo = j.found.upTo
      /\ n.spammers = j.spammers \cup users
      /\ n.window = j.window \ tweets
      /\ n.now = j.now /\ n.blocked = j.blocked
  <2>1. j \in Job /\ j.page < MaxPages /\ users \in SUBSET Author
        /\ values \in SUBSET Tweet /\ tweets \in SUBSET Tweet
    BY <1>1, <1>4
  <2> HIDE DEF new
  <2>2. j.page + 1 \in 0..MaxPages
    BY <2>1, PagesAssumption DEF Job
  <2>3. n \in Job
    BY <2>1, <2>2 DEF Job, Tweets
  <2>4. /\ n.found.values = j.found.values \cup values
        /\ n.found.upTo = j.found.upTo
    BY <2>1 DEF Job, Tweets
  <2>5. /\ n.symbol = j.symbol /\ n.page = j.page + 1
        /\ n.spammers = j.spammers \cup users
    BY <2>1 DEF Job, Tweets
  <2>6. /\ n.window = j.window \ tweets
        /\ n.now = j.now /\ n.blocked = j.blocked
    BY <2>1 DEF Job, Tweets
  <2> QED
    BY <2>3, <2>4, <2>5, <2>6
<1>6. \A t \in tweets \ Spam :
       t \in n.found.values \/ author[t] \in n.blocked \cup n.spammers
  BY <1>3, <1>5
<1> HIDE DEF n, users
<1>7. CASE last(tweets)
  <2>1. Turns(c, tweets, Checked(n))
    BY <1>1, <1>3, <1>5, <1>6, <1>7, CheckedFields DEF FetchPage, Turns, n
  <2> QED
    BY <2>1, TurnsStep
<1>8. CASE ~last(tweets)
  <2>1. n.page < MaxPages
    BY <1>1, <1>5, <1>8, PagesAssumption DEF Job
  <2>2. pc' = pc /\ skipped' = skipped
    BY <1>1, <1>3, <1>8 DEF Inv, TypeOK, Job
  <2>3. Turns(c, tweets, n)
    BY <1>1, <1>3, <1>5, <1>6, <1>8, <2>1, <2>2 DEF FetchPage, Turns, n
  <2> QED
    BY <2>3, TurnsStep
<1> QED
  BY <1>7, <1>8

LEMMA NotJsonStep == ASSUME Inv, NEW c \in Search, NotJson(c) PROVE Inv'
<1> DEFINE j == job[c]
           last == j.page = 0 \/ j.page + 1 = MaxPages
           next == [j EXCEPT !.page = @ + 1]
<1>1. pc[c] = "fetch" /\ j \in Job /\ j.page < MaxPages
  BY NoneAssumption DEF NotJson, Inv, TypeOK, SearchInv, Coroutine
<1>2. /\ next \in Job /\ next.page = j.page + 1
      /\ next.symbol = j.symbol /\ next.found = j.found
      /\ next.spammers = j.spammers /\ next.window = j.window
      /\ next.now = j.now /\ next.blocked = j.blocked
  BY <1>1, MissedPageFields
<1>3. CASE last
  <2>1. Turns(c, {}, Checked(next))
    BY <1>1, <1>2, <1>3, CheckedFields DEF NotJson, Turns
  <2> QED
    BY <2>1, TurnsStep
<1>4. CASE ~last
  <2>1. next.page < MaxPages
    BY <1>1, <1>2, <1>4, PagesAssumption DEF Job
  <2>2. pc' = pc /\ skipped' = skipped
    BY <1>1, <1>4 DEF NotJson, Inv, TypeOK, Job
  <2>3. Turns(c, {}, next)
    BY <1>1, <1>2, <1>4, <2>1, <2>2 DEF NotJson, Turns
  <2> QED
    BY <2>3, TurnsStep
<1> QED
  BY <1>3, <1>4

LEMMA FetchFailsStep ==
  ASSUME Inv, NEW c \in Search, FetchFails(c) PROVE Inv'
<1> USE DEF FetchFails, historyVars
<1> DEFINE j == job[c]
<1>1. pc[c] = "fetch" /\ j \in Job /\ SearchInv(c)
  BY DEF Inv, TypeOK, Coroutine
<1>2. job'[c] = Fetched(j) /\ pc'[c] = "push"
  BY DEF Inv, TypeOK, Coroutine
<1>3. TypeOK' /\ UserInv' /\ BlockInv'
  BY <1>1, FetchedFields, NoneAssumption
     DEF Inv, TypeOK, UserInv, BlockInv, Blocking, Inside, Coroutine
<1>4. Alone(c) /\ Onward
  BY OnwardIf DEF Inv, TypeOK, Alone, Coroutine
<1>5. SearchInv(c)'
  <2>1. Wanted' = Wanted /\ Held' = Held /\ recorded' = recorded
    BY DEF Wanted, Held
  <2> QED
    BY <1>1, <1>2, <2>1, FetchedFields DEF SearchInv, Blocking, Inside
<1> QED
  BY <1>1, <1>2, <1>3, <1>4, <1>5, FetchedFields, SearchMoves DEF Inside

LEMMA PushTweetsStep ==
  ASSUME Inv, NEW c \in Search, PushTweets(c) PROVE Inv'
<1> USE DEF historyVars
<1> DEFINE j == job[c]
<1>1. pc[c] = "push" /\ j \in Job /\ SearchInv(c)
  BY DEF PushTweets, Inv, TypeOK, Coroutine
<1>2. PICK k \in Job, p \in {"save", "block"} :
        /\ pc' = [pc EXCEPT ![c] = p] /\ job' = [job EXCEPT ![c] = k]
        /\ k.symbol = j.symbol /\ k.found = j.found /\ k.page = j.page
        /\ k.spammers = j.spammers /\ k.blocked \subseteq j.blocked
        /\ p = "save" => k.spammers = {}
        /\ p = "block" => k.todo = k.spammers
  <2>1. CASE j.spammers = {}
    <3> DEFINE k == [j EXCEPT !.blocked = {}]
    <3>1. k \in Job /\ k.symbol = j.symbol /\ k.found = j.found
          /\ k.page = j.page /\ k.spammers = {} /\ k.blocked = {}
      BY <1>1, <2>1 DEF Job
    <3>2. pc' = [pc EXCEPT ![c] = "save"] /\ job' = [job EXCEPT ![c] = k]
      BY <2>1 DEF PushTweets
    <3> QED
      BY <2>1, <3>1, <3>2
  <2>2. CASE j.spammers # {}
    <3> DEFINE k == [j EXCEPT !.todo = j.spammers]
    <3>1. k \in Job /\ k.symbol = j.symbol /\ k.found = j.found
          /\ k.page = j.page /\ k.spammers = j.spammers
          /\ k.blocked = j.blocked /\ k.todo = j.spammers
      BY <1>1 DEF Job
    <3>2. pc' = [pc EXCEPT ![c] = "block"] /\ job' = [job EXCEPT ![c] = k]
      BY <2>2 DEF PushTweets
    <3> QED
      BY <3>1, <3>2
  <2> QED
    BY <2>1, <2>2
<1>3. pc'[c] = p /\ job'[c] = k
  BY <1>2 DEF Inv, TypeOK, Coroutine
<1>4. TypeOK' /\ UserInv' /\ BlockInv'
  BY <1>2, NoneAssumption
     DEF PushTweets, Inv, TypeOK, UserInv, BlockInv, Blocking, Inside,
         Coroutine
<1>5. Alone(c) /\ Onward
  BY <1>2, OnwardIf DEF PushTweets, Inv, TypeOK, Alone, Coroutine
<1>6. SearchInv(c)'
  <2>1. Wanted' = Wanted /\ Held' = Held /\ recorded' = recorded
    BY DEF PushTweets, Wanted, Held
  <2> QED
    BY <1>1, <1>2, <1>3, <2>1 DEF SearchInv, Blocking, Inside
<1> QED
  BY <1>1, <1>2, <1>3, <1>4, <1>5, <1>6, SearchMoves DEF Inside

LEMMA RecordSpammerStep ==
  ASSUME Inv, NEW c \in Search, RecordSpammer(c) PROVE Inv'
<1> USE DEF historyVars
<1> DEFINE j == job[c]
           k == [j EXCEPT !.todo = @ \ {user[c]}]
<1>1. pc[c] = "record" /\ j \in Job /\ j.symbol \in Symbol /\ SearchInv(c)
      /\ user[c] \in Author
  BY DEF RecordSpammer, Inv, TypeOK, UserInv, Blocking, Coroutine, Job
<1>2. k \in Job /\ k.symbol = j.symbol /\ k.found = j.found /\ k.page = j.page
      /\ k.spammers = j.spammers /\ k.blocked = j.blocked
      /\ k.todo = j.todo \ {user[c]}
  BY <1>1 DEF Job
<1>3. /\ job' = [job EXCEPT ![c] = k] /\ job'[c] = k
      /\ recorded' = recorded \cup {user[c]}
  BY DEF RecordSpammer, Inv, TypeOK
<1>4. /\ pc' = [pc EXCEPT ![c] = IF k.todo = {} THEN "tags" ELSE "block"]
      /\ pc'[c] = IF k.todo = {} THEN "tags" ELSE "block"
  BY <1>3 DEF RecordSpammer, Inv, TypeOK, Coroutine
<1>5. TypeOK' /\ UserInv' /\ BlockInv'
  <2>1. pc' \in [Coroutine -> Place] /\ UserInv'
    BY <1>4 DEF RecordSpammer, Inv, TypeOK, UserInv, Blocking, Place, Inside,
                Coroutine
  <2>2. job' \in [Search -> Job \cup {None}] /\ job'[c] # None
        /\ \A d \in Search \ {c} : job'[d] = job[d]
    BY <1>2, <1>3, NoneAssumption DEF Inv, TypeOK
  <2>3. /\ recorded' \subseteq Author /\ BlockInv'
        /\ user' \in [Coroutine -> Author \cup {None}]
    BY <1>1, <1>3 DEF RecordSpammer, Inv, TypeOK, BlockInv, Coroutine
  <2>4. \A d \in Search : pc'[d] # "ended" => job'[d] # None
    BY <1>4, <2>2 DEF Inv, TypeOK, Coroutine
  <2> QED
    BY <2>1, <2>2, <2>3, <2>4 DEF RecordSpammer, Inv, TypeOK, Place
<1>6. Alone(c) /\ Onward
  BY <1>3, <1>4, OnwardIf DEF RecordSpammer, Inv, TypeOK, Alone, Coroutine
<1>7. SearchInv(c)'
  <2>1. Wanted'[j.symbol] \subseteq Wanted[j.symbol] /\ Held' = Held
    BY <1>1, <1>6, WantedShrinks DEF RecordSpammer, Held, Inv
  <2>2. /\ k.page < MaxPages /\ k.blocked \subseteq recorded'
        /\ k.spammers \ k.todo \subseteq recorded'
        /\ Held'[k.symbol] \subseteq k.found.values
        /\ \A t \in Wanted'[k.symbol] \cap k.found.upTo :
             t \in k.found.values \/ author[t] \in k.spammers
    BY <1>1, <1>2, <1>3, <2>1 DEF SearchInv, Blocking, Inside
  <2>3. pc'[c] \in {"tags", "block"} /\ (pc'[c] = "tags" => k.todo = {})
    BY <1>4
  <2> QED
    BY <1>3, <2>2, <2>3 DEF SearchInv
<1> QED
  BY <1>1, <1>2, <1>3, <1>4, <1>5, <1>6, <1>7, SearchMoves DEF Inside

LEMMA CacheBlocksStep ==
  ASSUME Inv, NEW c \in Search, CacheBlocks(c) PROVE Inv'
<1> USE DEF historyVars
<1> DEFINE j == job[c]
           k == [j EXCEPT !.blocked = {}, !.spammers = {}]
<1>1. pc[c] = "tags" /\ j \in Job /\ j.symbol \in Symbol /\ SearchInv(c)
  BY DEF CacheBlocks, Inv, TypeOK, Coroutine, Job
<1>2. k \in Job /\ k.symbol = j.symbol /\ k.found = j.found /\ k.page = j.page
      /\ k.spammers = {} /\ k.blocked = {}
  BY <1>1 DEF Job
<1>3. job' = [job EXCEPT ![c] = k] /\ job'[c] = k
      /\ pc' = [pc EXCEPT ![c] = "save"] /\ pc'[c] = "save"
  BY DEF CacheBlocks, Inv, TypeOK, Coroutine
<1>4. j.spammers \subseteq recorded /\ j.blocked \subseteq recorded
  BY <1>1 DEF SearchInv
<1>5. TypeOK' /\ UserInv' /\ BlockInv'
  <2>1. blocks' \subseteq SUBSET Author /\ BlockInv'
    BY <1>4 DEF CacheBlocks, Inv, TypeOK, BlockInv
  <2>2. pc' \in [Coroutine -> Place] /\ UserInv'
    BY <1>3 DEF CacheBlocks, Inv, TypeOK, UserInv, Blocking, Place, Inside
  <2>3. job' \in [Search -> Job \cup {None}] /\ job'[c] # None
        /\ \A d \in Search \ {c} : job'[d] = job[d] /\ pc'[d] = pc[d]
    BY <1>2, <1>3, NoneAssumption DEF Inv, TypeOK, Coroutine
  <2> QED
    BY <2>1, <2>2, <2>3 DEF CacheBlocks, Inv, TypeOK, Place
<1>6. Alone(c) /\ Onward
  BY <1>3, OnwardIf DEF CacheBlocks, Inv, TypeOK, Alone, Coroutine
<1>7. SearchInv(c)'
  <2>1. Wanted' = Wanted /\ Held' = Held /\ recorded' = recorded
    BY DEF CacheBlocks, Wanted, Held
  <2>2. \A t \in Wanted[j.symbol] : author[t] \notin recorded
    BY <1>1 DEF Wanted
  <2> QED
    BY <1>1, <1>2, <1>3, <1>4, <2>1, <2>2 DEF SearchInv, Blocking, Inside
<1> QED
  BY <1>1, <1>2, <1>3, <1>5, <1>6, <1>7, SearchMoves DEF Inside

(* Storing. The search is alone inside for its symbol.                     *)
LEMMA SaveEndsStep == ASSUME Inv, NEW c \in Search, SaveEnds(c) PROVE Inv'
<1> USE DEF SaveEnds, historyVars
<1> DEFINE j == job[c]
<1>1. /\ pc[c] = "saving" /\ j \in Job /\ j.symbol \in Symbol
      /\ j.found \in Tweets /\ j.found # None /\ SearchInv(c)
  BY NoneAssumption DEF Inv, TypeOK, Coroutine, Job
<1>2. pc'[c] = "cache" /\ \A d \in Search \ {c} : pc'[d] = pc[d]
  BY DEF Inv, TypeOK, Coroutine
<1>3. /\ file' \in [Symbol -> Tweets \cup {None}] /\ file'[j.symbol] = j.found
      /\ \A s \in Symbol \ {j.symbol} : file'[s] = file[s]
  BY <1>1 DEF Inv, TypeOK
<1>4. TypeOK' /\ UserInv' /\ BlockInv'
  BY <1>1, <1>3 DEF Inv, TypeOK, UserInv, BlockInv, Blocking, Inside, Coroutine
<1>5. LockInv'
  BY <1>1, <1>2 DEF Inv, LockInv, Inside
<1>6. Wanted' = Wanted /\ Held' = Held
  BY DEF Wanted, Held
<1>7. Sound(j.symbol, j.found)
  BY <1>1 DEF SearchInv, Sound, Inside
<1>8. StoreInv'
  BY <1>1, <1>3, <1>6, <1>7 DEF Inv, StoreInv, Sound
<1>9. ASSUME NEW d \in Search, job'[d] # None PROVE SearchInv(d)'
  <2>1. SearchInv(d)
    BY <1>9 DEF Inv
  <2>2. CASE d = c
    BY <1>1, <1>2, <1>3, <1>6, <2>2 DEF SearchInv, Blocking, Inside
  <2>3. CASE d # c
    <3>1. pc[d] = "cache" => job[d].symbol \in Symbol \ {j.symbol}
      BY <1>1, <1>9, <2>3, NoneAssumption DEF Inv, LockInv, Inside, TypeOK, Job
    <3> QED
      BY <1>2, <1>3, <1>6, <2>1, <2>3, <3>1 DEF SearchInv, Published
  <2> QED
    BY <2>2, <2>3
<1> QED
  BY <1>4, <1>5, <1>8, <1>9 DEF Inv

LEMMA CacheTweetsStep ==
  ASSUME Inv, NEW c \in Search, CacheTweets(c) PROVE Inv'
<1> USE DEF CacheTweets, historyVars
<1> DEFINE j == job[c]
<1>1. /\ pc[c] = "cache" /\ j \in Job /\ j.symbol \in Symbol
      /\ j.found \in Tweets /\ j.found # None /\ SearchInv(c)
  BY NoneAssumption DEF Inv, TypeOK, Coroutine, Job
<1>2. pc'[c] = "authors" /\ job'[c] = NewJob(j.symbol)
      /\ \A d \in Search \ {c} : pc'[d] = pc[d] /\ job'[d] = job[d]
  BY DEF Inv, TypeOK, Coroutine
<1>3. /\ cache' \in [Symbol -> Tweets \cup {None}]
      /\ cache'[j.symbol] = j.found
      /\ \A s \in Symbol \ {j.symbol} : cache'[s] = cache[s]
      /\ kept' \in [Symbol -> SUBSET Tweet]
      /\ kept'[j.symbol] = kept[j.symbol] \cup j.found.values
      /\ \A s \in Symbol \ {j.symbol} : kept'[s] = kept[s]
  BY <1>1 DEF Inv, TypeOK, Tweets
<1>4. TypeOK' /\ UserInv' /\ BlockInv'
  <2>1. job' \in [Search -> Job \cup {None}]
        /\ \A d \in Search : pc'[d] # "ended" => job'[d] # None
    BY <1>1, <1>2, NewJobFields, NoneAssumption DEF Inv, TypeOK
  <2> QED
    BY <1>3, <2>1
       DEF Inv, TypeOK, UserInv, BlockInv, Blocking, Inside, Coroutine
<1>5. LockInv'
  BY <1>1, <1>2 DEF Inv, LockInv, Inside
<1>6. /\ Wanted' = Wanted
      /\ Held'[j.symbol] \subseteq Held[j.symbol] \cup j.found.values
      /\ \A s \in Symbol \ {j.symbol} : Held'[s] = Held[s]
  BY <1>1, <1>3 DEF Wanted, Held
<1>7. /\ Held[j.symbol] \subseteq j.found.values
      /\ Wanted[j.symbol] \cap j.found.upTo \subseteq j.found.values
      /\ file[j.symbol] # None /\ file[j.symbol].values = j.found.values
  BY <1>1 DEF SearchInv, Inside
<1>8. StoreInv'
  BY <1>1, <1>3, <1>6, <1>7 DEF Inv, StoreInv, Sound
<1>9. ASSUME NEW d \in Search, job'[d] # None PROVE SearchInv(d)'
  <2>1. CASE d = c
    BY <1>1, <1>2, <2>1, NewJobFields DEF SearchInv, Blocking, Inside
  <2>2. CASE d # c
    <3>1. SearchInv(d) /\ job[d].symbol \in Symbol
      BY <1>2, <1>9, <2>2 DEF Inv, TypeOK, Job
    <3>2. pc[d] \in Inside => job[d].symbol # j.symbol
      BY <1>1, <2>2 DEF Inv, LockInv, Inside
    <3> QED
      BY <1>2, <1>6, <2>2, <3>1, <3>2 DEF SearchInv, Published, Inside
  <2> QED
    BY <2>1, <2>2
<1> QED
  BY <1>4, <1>5, <1>8, <1>9 DEF Inv

-----------------------------------------------------------------------------
(* The other steps.                                                        *)

(* Nothing of a search depends on where a request stands.                  *)
LEMMA RequestMoves ==
  ASSUME Inv, TypeOK', UserInv', NEW c \in Request,
         UNCHANGED <<age, blocks, cache, file, job, historyVars>>,
         recorded \subseteq recorded',
         \A d \in Search : pc'[d] = pc[d]
  PROVE  Inv'
<1> USE DEF historyVars
<1>1. BlockInv' /\ LockInv' /\ Onward /\ Alone(c)
  BY OnwardIf DEF Inv, BlockInv, LockInv, Alone
<1>2. c \in Coroutine /\ c \notin Search
  BY CoroutineAssumption DEF Coroutine
<1>3. StoreInv' /\ \A d \in Search : job'[d] # None => SearchInv(d)'
  BY <1>1, <1>2, OthersKept
<1> QED
  BY <1>1, <1>3 DEF Inv

LEMMA RequestStepInv ==
  ASSUME Inv, NEW c \in Request,
         RequestStep(c) \/ \E a \in Author : RequestBegins(c, a)
  PROVE  Inv'
<1>1. c \in Coroutine /\ c \notin Search /\ Search \subseteq Coroutine
  BY CoroutineAssumption DEF Coroutine
<1> USE <1>1 DEF Inv, TypeOK, UserInv, Blocking, Inside, historyVars
<1>2. CASE \E error \in BOOLEAN : Block2(c, error)
  <2>1. user[c] \in Author
    BY <1>2 DEF Block2
  <2>2. TypeOK' /\ UserInv' /\ \A d \in Search : pc'[d] = pc[d]
    BY <1>2, <2>1 DEF Block2
  <2> QED
    BY <1>2, <2>2, RequestMoves DEF Block2
<1>3. CASE RequestAnswered(c)
  BY <1>3, RequestMoves DEF RequestAnswered
<1>4. CASE RecordRequest(c)
  <2>1. user[c] \in Author
    BY <1>4 DEF RecordRequest
  <2>2. TypeOK' /\ UserInv' /\ \A d \in Search : pc'[d] = pc[d]
    BY <1>4, <2>1 DEF RecordRequest
  <2> QED
    BY <1>4, <2>2, RequestMoves DEF RecordRequest
<1>5. CASE RequestEnds(c)
  BY <1>5, RequestMoves DEF RequestEnds
<1>6. CASE \E a \in Author : RequestBegins(c, a)
  BY <1>6, RequestMoves DEF RequestBegins, BlockAuthor
<1> QED
  BY <1>2, <1>3, <1>4, <1>5, <1>6 DEF RequestStep

(* Who waits, and who works, keeps what it has when nothing but time goes  *)
(* on.                                                                     *)
LEMMA PublishStep == ASSUME Inv, NEW t \in Tweet, Publish(t) PROVE Inv'
<1> USE DEF Publish, historyVars
<1>1. MaxAge[t] \in 0..3 /\ age[t] \in 0..3 /\ age[t] < MaxAge[t]
  BY AgeAssumption DEF Inv, TypeOK
<1>2. age' \in [Tweet -> 0..3] /\ \A u \in Tweet : age[u] <= age'[u]
  BY <1>1 DEF Inv, TypeOK
<1>3. TypeOK' /\ UserInv' /\ LockInv' /\ BlockInv'
  BY <1>2 DEF Inv, TypeOK, UserInv, LockInv, BlockInv
<1>4. Onward
  BY <1>2 DEF Onward
<1>5. /\ \A s \in Symbol : /\ Wanted'[s] \subseteq Wanted[s]
                           /\ Held'[s] \subseteq Held[s]
      /\ Published \subseteq Published'
  BY <1>4, WantedShrinks, HeldShrinks DEF Inv
<1>6. StoreInv'
  BY <1>5 DEF Inv, StoreInv, Sound
<1>7. ASSUME NEW d \in Search, job'[d] # None PROVE SearchInv(d)'
  <2>1. SearchInv(d) /\ job[d].symbol \in Symbol
    BY <1>7 DEF Inv, TypeOK, Job
  <2> QED
    BY <1>5, <2>1 DEF SearchInv
<1> QED
  BY <1>3, <1>6, <1>7 DEF Inv

LEMMA StaleFields ==
  ASSUME NEW store \in Tweets \cup {None}
  PROVE  /\ Stale(store) \in Tweets \cup {None}
         /\ Stale(store) = None <=> store = None
         /\ store # None => /\ Stale(store).values = store.values
                            /\ Stale(store).upTo = store.upTo
BY NoneAssumption DEF Stale, Tweets

LEMMA ElapseStep == ASSUME Inv, Elapse PROVE Inv'
<1> USE DEF historyVars
<1> DEFINE k(d) == [job[d] EXCEPT !.found.fresh = FALSE, !.recent = FALSE]
<1>1. ASSUME NEW d \in Search, job[d] # None
      PROVE  /\ job'[d] = k(d) /\ k(d) \in Job
             /\ k(d).symbol = job[d].symbol /\ k(d).now = job[d].now
             /\ k(d).page = job[d].page /\ k(d).window = job[d].window
             /\ k(d).blocked = job[d].blocked
             /\ k(d).spammers = job[d].spammers /\ k(d).todo = job[d].todo
             /\ k(d).found.values = job[d].found.values
             /\ k(d).found.upTo = job[d].found.upTo
  <2>1. job[d] \in Job /\ job'[d] = k(d)
    BY <1>1 DEF Elapse, Inv, TypeOK
  <2>2. k(d) \in Job
    BY <2>1 DEF Job, Tweets
  <2>3. /\ k(d).found.values = job[d].found.values
        /\ k(d).found.upTo = job[d].found.upTo
    BY <2>1 DEF Job, Tweets
  <2>4. /\ k(d).symbol = job[d].symbol /\ k(d).now = job[d].now
        /\ k(d).page = job[d].page /\ k(d).window = job[d].window
    BY <2>1 DEF Job, Tweets
  <2>5. /\ k(d).blocked = job[d].blocked
        /\ k(d).spammers = job[d].spammers /\ k(d).todo = job[d].todo
    BY <2>1 DEF Job, Tweets
  <2> QED
    BY <2>1, <2>2, <2>3, <2>4, <2>5
<1>2. \A d \in Search : job[d] = None <=> job'[d] = None
  <2>1. \A d \in Search : job[d] = None => job'[d] = None
    BY DEF Elapse
  <2> QED
    BY <1>1, <2>1, NoneAssumption
<1> HIDE DEF k
<1>3. job' \in [Search -> Job \cup {None}]
  <2>1. job' = [d \in Search |-> job'[d]]
    BY DEF Elapse
  <2>2. \A d \in Search : job'[d] \in Job \cup {None}
    BY <1>1, <1>2
  <2> QED
    BY <2>1, <2>2
<1>4. /\ cache' = [s \in Symbol |-> Stale(cache[s])]
      /\ file' = [s \in Symbol |-> Stale(file[s])]
      /\ \A s \in Symbol : {cache[s], file[s]} \subseteq Tweets \cup {None}
  BY DEF Elapse, Inv, TypeOK
<1>5. /\ \A s \in Symbol :
           /\ {cache'[s], file'[s]} \subseteq Tweets \cup {None}
           /\ cache'[s] = None <=> cache[s] = None
           /\ file'[s] = None <=> file[s] = None
           /\ cache[s] # None => /\ cache'[s].values = cache[s].values
                               /\ cache'[s].upTo = cache[s].upTo
           /\ file[s] # None => /\ file'[s].values = file[s].values
                               /\ file'[s].upTo = file[s].upTo
      /\ cache' \in [Symbol -> Tweets \cup {None}]
      /\ file' \in [Symbol -> Tweets \cup {None}]
  BY <1>4, StaleFields
<1>6. TypeOK' /\ UserInv' /\ BlockInv'
  BY <1>2, <1>3, <1>5 DEF Elapse, Inv, TypeOK, UserInv, BlockInv
<1>7. LockInv'
  <2>1. \A d \in Search : pc[d] \in Inside => job'[d].symbol = job[d].symbol
    BY <1>1 DEF Inv, TypeOK, Inside
  <2> QED
    BY <2>1 DEF Elapse, Inv, LockInv
<1>8. Wanted' = Wanted /\ Held' = Held /\ Published' = Published
  BY DEF Elapse, Wanted, Held, Published
<1>9. StoreInv'
  BY <1>5, <1>8 DEF Inv, StoreInv, Sound
<1>10. ASSUME NEW d \in Search, job'[d] # None PROVE SearchInv(d)'
  <2>1. job[d] # None /\ SearchInv(d) /\ job[d].symbol \in Symbol
    BY <1>2, <1>10 DEF Inv, TypeOK, Job
  <2>2. pc' = pc /\ recorded' = recorded
    BY DEF Elapse
  <2> QED
    BY <1>1, <1>5, <1>8, <2>1, <2>2 DEF SearchInv
<1> QED
  BY <1>6, <1>7, <1>9, <1>10 DEF Inv

LEMMA RestartStep == ASSUME Inv, Restart PROVE Inv'
<1> USE DEF Restart
<1>1. TypeOK' /\ UserInv' /\ LockInv' /\ BlockInv'
  BY NoneAssumption
     DEF Inv, TypeOK, UserInv, LockInv, BlockInv, Blocking, Inside, Coroutine
<1>2. Wanted' = Wanted
  BY DEF Wanted
<1>3. \A s \in Symbol : Held'[s] = IF BeingWritten(s) THEN {} ELSE Held[s]
  BY DEF Held
<1>4. StoreInv'
  BY <1>2, <1>3 DEF Inv, StoreInv, Sound
<1>5. \A d \in Search : job'[d] = None
  OBVIOUS
<1> QED
  BY <1>1, <1>4, <1>5 DEF Inv

-----------------------------------------------------------------------------
LEMMA InitInv == Init => Inv
<1> SUFFICES ASSUME Init PROVE Inv
  OBVIOUS
<1>1. TypeOK
  BY DEF Init, TypeOK, Coroutine
<1>2. \A s \in Symbol : Held[s] = {} /\ file[s] = None /\ cache[s] = None
  BY DEF Init, Held
<1>3. UserInv /\ LockInv /\ BlockInv
  BY DEF Init, UserInv, LockInv, BlockInv, Blocking, Inside, Coroutine
<1>4. StoreInv
  BY <1>2 DEF StoreInv
<1>5. \A c \in Search : job[c] = None
  BY DEF Init
<1> QED
  BY <1>1, <1>3, <1>4, <1>5 DEF Inv

LEMMA InvStep == Inv /\ [Next]_vars => Inv'
<1> SUFFICES ASSUME Inv, [Next]_vars PROVE Inv'
  OBVIOUS
<1>1. CASE UNCHANGED vars
  <2> USE <1>1 DEF vars, historyVars
  <2>1. Wanted' = Wanted /\ Held' = Held /\ Published' = Published
    BY DEF Wanted, Held, Published
  <2>2. TypeOK' /\ UserInv' /\ LockInv' /\ BlockInv'
    BY DEF Inv, TypeOK, UserInv, LockInv, BlockInv
  <2>3. StoreInv'
    BY <2>1 DEF Inv, StoreInv, Sound
  <2>4. \A c \in Search : job'[c] # None => SearchInv(c)'
    BY <2>1 DEF Inv, SearchInv
  <2> QED
    BY <2>2, <2>3, <2>4 DEF Inv
<1>2. CASE \E t \in Tweet : Publish(t)
  BY <1>2, PublishStep
<1>3. CASE Elapse \/ Restart
  BY <1>3, ElapseStep, RestartStep
<1>4. ASSUME NEW c \in Search,
             SearchStep(c) \/ \E s \in Symbol : SearchBegins(c, s)
      PROVE  Inv'
  <2>1. CASE Acquire(c) \/ Load(c) \/ Select(c) \/ FetchPage(c) \/ NotJson(c)
               \/ FetchFails(c) \/ PushTweets(c)
    BY <2>1, AcquireStep, LoadStep, SelectStep, FetchPageStep, NotJsonStep,
       FetchFailsStep, PushTweetsStep
  <2>2. CASE SelectFails(c) \/ SearchFails(c) \/ SendAuthors(c)
               \/ CacheTagsFails(c) \/ \E s \in Symbol : SearchBegins(c, s)
    BY <2>2, EndsStep, CacheTagsFailsStep, SearchBeginsStep
  <2>3. CASE BlockSpammer(c) \/ SpammerAnswered(c) \/ RecordSpammer(c)
               \/ CacheBlocks(c) \/ \E error \in BOOLEAN : Block2(c, error)
    BY <2>3, BlockSpammerStep, SpammerAnsweredStep, RecordSpammerStep,
       CacheBlocksStep, Block2Step
  <2>4. CASE SaveBegins(c) \/ SaveEnds(c) \/ CacheTweets(c)
    BY <2>4, SaveBeginsStep, SaveEndsStep, CacheTweetsStep
  <2> QED
    BY <1>4, <2>1, <2>2, <2>3, <2>4 DEF SearchStep
<1>5. ASSUME NEW c \in Request,
             RequestStep(c) \/ \E a \in Author : RequestBegins(c, a)
      PROVE  Inv'
  BY <1>5, RequestStepInv
<1> QED
  BY <1>1, <1>2, <1>3, <1>4, <1>5 DEF Next

(* TypeOK: the shapes of the state hold, and no search asks for more pages *)
(* than it may.                                                            *)
THEOREM Typing == Spec => []TypeOK
<1>1. Inv => TypeOK
  BY DEF Inv
<1> QED
  BY <1>1, InitInv, InvStep, PTL DEF Spec

(* What is read is sound, whether it comes from the cache or the file.     *)
LEMMA ExistingSound ==
  ASSUME Inv, NEW s \in Symbol PROVE Sound(s, Existing(s))
BY DEF Inv, StoreInv, Sound, Existing, NoTweets

(* NothingForgotten: what was stored for a symbol is there for the next    *)
(* search until it is a week old, whatever fails.                          *)
THEOREM StoredKept == Spec => []NothingForgotten
<1>1. Inv => NothingForgotten
  <2> SUFFICES ASSUME Inv, NEW s \in Symbol, NEW t \in kept[s], age[t] # 3
               PROVE  t \in Existing(s).values
    BY DEF NothingForgotten
  <2>1. t \in Tweet /\ age[t] \in 0..3
    BY DEF Inv, TypeOK
  <2>2. t \in Held[s]
    BY <2>1 DEF Held
  <2> QED
    BY <2>2, ExistingSound DEF Sound
<1> QED
  BY <1>1, InitInv, InvStep, PTL DEF Spec

(* NoGap: what was published before update_time is stored, unless its      *)
(* author is recorded as blocked or it was on a page that was given up.    *)
THEOREM NoneSkipped == Spec => []NoGap
<1>1. Inv => NoGap
  <2> SUFFICES ASSUME Inv, NEW s \in Symbol,
                      NEW t \in Existing(s).upTo \ Spam, ~(age[t] > 1),
                      author[t] \notin recorded, t \notin skipped[s]
               PROVE  t \in Existing(s).values
    BY DEF NoGap
  <2>1. Existing(s) \in Tweets
    BY DEF Inv, TypeOK, Existing, NoTweets, Tweets
  <2>2. t \in Tweet /\ age[t] \in 0..3
    BY <2>1 DEF Inv, TypeOK, Tweets
  <2>3. t \in Wanted[s]
    BY <2>2 DEF Wanted
  <2> QED
    BY <2>3, ExistingSound DEF Sound
<1> QED
  BY <1>1, InitInv, InvStep, PTL DEF Spec

(* A search leaves out tweets only of authors the data base has as blocked *)
(* ("pBlockedUsers"), though searches overwrite each other's cache of them *)
(* and some fail after they have changed it.                               *)
THEOREM OnlyRecordedHidden ==
  Spec => [](\A c \in Search :
               job[c] # None => job[c].blocked \subseteq recorded)
<1>1. Inv => \A c \in Search :
               job[c] # None => job[c].blocked \subseteq recorded
  BY DEF Inv, SearchInv
<1> QED
  BY <1>1, InitInv, InvStep, PTL DEF Spec

(* A search that comes past its loop over new authors of spam has recorded *)
(* all of them, whether or not Twitter has blocked them, and whatever the  *)
(* other coroutines do to CanBlock. (A request has not: see the finding    *)
(* about SuccessMeansBlocked.)                                             *)
THEOREM SpammersRecorded ==
  Spec => [](\A c \in Search :
               pc[c] = "tags" => job[c].spammers \subseteq recorded)
<1>1. Inv => \A c \in Search :
               pc[c] = "tags" => job[c].spammers \subseteq recorded
  <2> SUFFICES ASSUME Inv, NEW c \in Search, pc[c] = "tags"
               PROVE  job[c].spammers \subseteq recorded
    OBVIOUS
  <2>1. SearchInv(c)
    BY DEF Inv, TypeOK
  <2> QED
    BY <2>1 DEF SearchInv
<1> QED
  BY <1>1, InitInv, InvStep, PTL DEF Spec

-----------------------------------------------------------------------------
(* A search that has begun comes to an end after so many steps of its own, *)
(* and gives back the lock: it goes through its stages, asks for at most   *)
(* MaxPages pages, and blocks each author once.                            *)

TodoInv == \A c \in Search : pc[c] \in Blocking => user[c] \in job[c].todo

Stage(p) ==
  CASE p = "waiting" -> 0
    [] p = "load" -> 1
    [] p = "select" -> 2
    [] p = "fetch" -> 3
    [] p = "push" -> 4
    [] p \in Blocking \cup {"block"} -> 5
    [] p = "tags" -> 6
    [] p = "save" -> 7
    [] p = "saving" -> 8
    [] p = "cache" -> 9
    [] p = "authors" -> 10
    [] OTHER -> 11

(* The steps for one author.                                               *)
Turn(p) == CASE p = "block" -> 0
             [] p = "asking" -> 1
             [] p \in {"refused", "granted"} -> 2
             [] OTHER -> 3

Nearer(c) ==
  \/ Stage(pc[c]) < Stage(pc'[c])
  \/ /\ pc[c] = "fetch" /\ pc'[c] = "fetch"
     /\ job'[c].page = job[c].page + 1 /\ job'[c].page < MaxPages
  \/ /\ Stage(pc[c]) = 5 /\ Stage(pc'[c]) = 5
     /\ \/ job'[c].todo \subseteq job[c].todo /\ job'[c].todo # job[c].todo
        \/ job'[c].todo = job[c].todo /\ Turn(pc[c]) < Turn(pc'[c])

Stays(c) == /\ pc'[c] = pc[c] /\ user'[c] = user[c]
            /\ job'[c].page = job[c].page /\ job'[c].todo = job[c].todo

(* What one search does is nothing to another.                             *)
LEMMA SearchesApart ==
  ASSUME TypeOK, NEW c \in Search, NEW d \in Search, c # d, SearchStep(d)
  PROVE  pc'[c] = pc[c] /\ user'[c] = user[c] /\ job'[c] = job[c]
<1> USE DEF TypeOK, Coroutine
<1>1. CASE Acquire(d) \/ Load(d) \/ PushTweets(d)
  BY <1>1 DEF Acquire, Load, PushTweets
<1>2. CASE Select(d) \/ FetchPage(d)
  BY <1>2 DEF Select, FetchPage
<1>3. CASE NotJson(d) \/ FetchFails(d)
  BY <1>3 DEF NotJson, FetchFails
<1>4. CASE SelectFails(d) \/ SearchFails(d) \/ CacheTagsFails(d)
             \/ SendAuthors(d)
  BY <1>4 DEF SelectFails, SearchFails, CacheTagsFails, SendAuthors, Ends
<1>5. CASE BlockSpammer(d) \/ \E error \in BOOLEAN : Block2(d, error)
  BY <1>5 DEF BlockSpammer, BlockAuthor, Block2
<1>6. CASE SpammerAnswered(d) \/ RecordSpammer(d) \/ CacheBlocks(d)
  BY <1>6 DEF SpammerAnswered, RecordSpammer, CacheBlocks
<1>7. CASE SaveBegins(d) \/ SaveEnds(d) \/ CacheTweets(d)
  BY <1>7 DEF SaveBegins, SaveEnds, CacheTweets
<1> QED
  BY <1>1, <1>2, <1>3, <1>4, <1>5, <1>6, <1>7 DEF SearchStep

LEMMA OthersStay ==
  ASSUME Inv, Next, NEW c \in Search, pc[c] # "ended", ~SearchStep(c)
  PROVE  Stays(c) \/ pc'[c] = "ended"
<1>1. /\ c \in Coroutine /\ c \notin Request /\ Request \subseteq Coroutine
      /\ job[c] \in Job
  BY CoroutineAssumption DEF Coroutine, Inv, TypeOK
<1>2. CASE \E t \in Tweet : Publish(t)
  BY <1>2 DEF Publish, Stays
<1>3. CASE Elapse
  <2> DEFINE k == [job[c] EXCEPT !.found.fresh = FALSE, !.recent = FALSE]
  <2>1. job[c] # None
    BY <1>1, NoneAssumption
  <2>2. job'[c] = k /\ pc' = pc /\ user' = user
    BY <1>3, <2>1 DEF Elapse
  <2>3. k.page = job[c].page /\ k.todo = job[c].todo
    BY <1>1 DEF Job, Tweets
  <2> QED
    BY <2>2, <2>3 DEF Stays
<1>4. ASSUME NEW d \in Search,
             SearchStep(d) \/ \E s \in Symbol : SearchBegins(d, s)
      PROVE  Stays(c)
  <2>1. CASE SearchStep(d)
    BY <2>1, SearchesApart DEF Stays, Inv
  <2>2. CASE \E s \in Symbol : SearchBegins(d, s)
    BY <2>2 DEF SearchBegins, Stays, Inv, TypeOK, Coroutine
  <2> QED
    BY <1>4, <2>1, <2>2
<1>5. ASSUME NEW d \in Request,
             RequestStep(d) \/ \E a \in Author : RequestBegins(d, a)
      PROVE  Stays(c)
  <2>1. UNCHANGED job /\ pc'[c] = pc[c] /\ user'[c] = user[c]
    BY <1>1, <1>5
       DEF RequestStep, Block2, RequestAnswered, RecordRequest, RequestEnds,
           RequestBegins, BlockAuthor, Inv, TypeOK
  <2> QED
    BY <2>1 DEF Stays
<1>6. CASE Restart
  BY <1>1, <1>6 DEF Restart
<1> QED
  BY <1>2, <1>3, <1>4, <1>5, <1>6 DEF Next

(* A step of a search brings it nearer to its end; while it blocks an      *)
(* author it has that author among those still to be blocked.              *)
LEMMA StepNearer ==
  ASSUME Inv, TodoInv, NEW c \in Search, SearchStep(c)
  PROVE  /\ Nearer(c)
         /\ pc'[c] \in Blocking => user'[c] \in job'[c].todo
<1>1. c \in Coroutine /\ pc \in [Coroutine -> Place]
      /\ job \in [Search -> Job \cup {None}]
      /\ user \in [Coroutine -> Author \cup {None}]
  BY DEF Inv, TypeOK, Place, Coroutine
<1>2. SearchInv(c) /\ job[c] \in Job
  BY <1>1 DEF Inv, TypeOK, SearchStep, Acquire, Load, PushTweets, Select,
       FetchPage, NotJson, FetchFails, SelectFails, SearchFails,
       CacheTagsFails, SendAuthors, BlockSpammer, Block2, SpammerAnswered,
       RecordSpammer, CacheBlocks, SaveBegins, SaveEnds, CacheTweets
<1> USE <1>1 DEF Nearer, Stage, Turn, Blocking
<1>3. CASE Acquire(c) \/ Load(c)
  <2>1. \/ pc[c] = "waiting" /\ pc'[c] = "load"
        \/ pc[c] = "load" /\ pc'[c] \in {"authors", "select"}
    BY <1>3 DEF Acquire, Load
  <2> QED
    BY <2>1
<1>4. CASE Select(c)
  BY <1>4 DEF Select
<1>5. CASE FetchPage(c)
  <2> DEFINE j == job[c]
  <2>1. PICK tweets \in SUBSET j.window :
          LET last == tweets = j.window \/ j.page + 1 = MaxPages
          IN /\ pc' = [pc EXCEPT ![c] = IF last THEN "push" ELSE "fetch"]
             /\ ~last => \E values, new :
                  job' = [job EXCEPT ![c] =
                    [j EXCEPT !.found.values = @ \cup values,
                              !.spammers = @ \cup new,
                              !.window = @ \ tweets, !.page = @ + 1]]
    BY <1>5 DEF FetchPage
  <2>2. CASE tweets = j.window \/ j.page + 1 = MaxPages
    <3>1. pc[c] = "fetch" /\ pc'[c] = "push"
      BY <1>5, <2>1, <2>2 DEF FetchPage
    <3> QED
      BY <3>1
  <2>3. CASE ~(tweets = j.window \/ j.page + 1 = MaxPages)
    <3>1. pc'[c] = "fetch" /\ job'[c].page = j.page + 1
      BY <1>2, <2>1, <2>3 DEF Job
    <3>2. j.page + 1 < MaxPages
      BY <1>2, <2>3, PagesAssumption DEF SearchInv, Job
    <3> QED
      BY <1>5, <3>1, <3>2 DEF FetchPage
  <2> QED
    BY <2>2, <2>3
<1>6. CASE NotJson(c)
  <2>1. CASE job[c].page = 0 \/ job[c].page + 1 = MaxPages
    <3>1. pc[c] = "fetch" /\ pc'[c] = "push"
      BY <1>6, <2>1 DEF NotJson
    <3> QED
      BY <3>1
  <2>2. CASE ~(job[c].page = 0 \/ job[c].page + 1 = MaxPages)
    <3>1. pc'[c] = "fetch" /\ job'[c].page = job[c].page + 1
      BY <1>2, <1>6, <2>2 DEF NotJson, Job
    <3>2. job[c].page + 1 < MaxPages
      BY <1>2, <2>2, PagesAssumption DEF SearchInv, Job
    <3> QED
      BY <1>6, <3>1, <3>2 DEF NotJson
  <2> QED
    BY <2>1, <2>2
<1>7. CASE FetchFails(c) \/ PushTweets(c)
  BY <1>7 DEF FetchFails, PushTweets
<1>8. CASE SelectFails(c) \/ SearchFails(c) \/ CacheTagsFails(c)
             \/ SendAuthors(c)
  BY <1>8 DEF SelectFails, SearchFails, CacheTagsFails, SendAuthors, Ends
<1>9. CASE BlockSpammer(c)
  BY <1>9 DEF BlockSpammer, BlockAuthor
<1>10. CASE \E error \in BOOLEAN : Block2(c, error)
  BY <1>10 DEF Block2, TodoInv
<1>11. CASE SpammerAnswered(c)
  BY <1>11 DEF SpammerAnswered, TodoInv
<1>12. CASE RecordSpammer(c)
  <2>1. job'[c].todo = job[c].todo \ {user[c]} /\ user[c] \in job[c].todo
    BY <1>2, <1>12 DEF RecordSpammer, TodoInv, Job
  <2>2. pc[c] = "record" /\ pc'[c] \in {"tags", "block"}
    BY <1>12 DEF RecordSpammer
  <2> QED
    BY <2>1, <2>2
<1>13. CASE CacheBlocks(c) \/ SaveBegins(c)
  BY <1>13 DEF CacheBlocks, SaveBegins
<1>14. CASE SaveEnds(c) \/ CacheTweets(c)
  BY <1>14 DEF SaveEnds, CacheTweets
<1> QED
  BY <1>3, <1>4, <1>5, <1>6, <1>7, <1>8, <1>9, <1>10, <1>11, <1>12, <1>13,
     <1>14 DEF SearchStep

LEMMA TodoStep == Inv /\ TodoInv /\ [Next]_vars => TodoInv'
<1> SUFFICES ASSUME Inv, TodoInv, [Next]_vars,
                    NEW c \in Search, pc'[c] \in Blocking
             PROVE  user'[c] \in job'[c].todo
  BY DEF TodoInv
<1>1. CASE UNCHANGED vars
  BY <1>1 DEF vars, TodoInv
<1>2. CASE Next /\ SearchStep(c)
  BY <1>2, StepNearer
<1>3. CASE Next /\ ~SearchStep(c) /\ pc[c] # "ended"
  BY <1>3, OthersStay DEF Stays, TodoInv, Blocking
<1>4. CASE Next /\ pc[c] = "ended"
  <2>1. c \in Coroutine /\ c \notin Request
    BY CoroutineAssumption DEF Coroutine
  <2>2. ~SearchStep(c)
    BY <1>4
       DEF SearchStep, Acquire, Load, PushTweets, Select,
           FetchPage, NotJson, FetchFails, SelectFails, SearchFails,
           CacheTagsFails, SendAuthors, BlockSpammer, Block2, SpammerAnswered,
           RecordSpammer, CacheBlocks, SaveBegins, SaveEnds, CacheTweets
  <2>3. pc'[c] \in {"ended", "waiting"}
    <3>1. CASE Elapse \/ \E t \in Tweet : Publish(t)
      BY <1>4, <3>1 DEF Elapse, Publish
    <3>2. ASSUME NEW d \in Search,
                 SearchStep(d) \/ \E s \in Symbol : SearchBegins(d, s)
          PROVE  pc'[c] \in {"ended", "waiting"}
      <4>1. CASE SearchStep(d)
        BY <1>4, <2>2, <4>1, SearchesApart DEF Inv
      <4>2. CASE \E s \in Symbol : SearchBegins(d, s)
        BY <1>4, <4>2 DEF SearchBegins, Inv, TypeOK, Coroutine
      <4> QED
        BY <3>2, <4>1, <4>2
    <3>3. ASSUME NEW d \in Request,
                 RequestStep(d) \/ \E a \in Author : RequestBegins(d, a)
          PROVE  pc'[c] = pc[c]
      BY <2>1, <3>3
         DEF RequestStep, Block2, RequestAnswered, RecordRequest, RequestEnds,
             RequestBegins, BlockAuthor, Inv, TypeOK
    <3>4. CASE Restart
      BY <2>1, <3>4 DEF Restart
    <3> QED
      BY <1>4, <3>1, <3>2, <3>3, <3>4 DEF Next
  <2> QED
    BY <2>3 DEF Blocking
<1> QED
  BY <1>1, <1>2, <1>3, <1>4

(* Every step of a search brings it nearer to its end, and no step of      *)
(* anybody else sets it back: whatever fails, and whatever Twitter sends,  *)
(* it gives back the lock of its symbol after so many steps.               *)
THEOREM LockGivenBack ==
  Spec => [][\A c \in Search : pc[c] # "ended" =>
               IF SearchStep(c) THEN Nearer(c)
               ELSE Stays(c) \/ pc'[c] = "ended"]_vars
<1> DEFINE A == \A c \in Search : pc[c] # "ended" =>
                  IF SearchStep(c) THEN Nearer(c)
                  ELSE Stays(c) \/ pc'[c] = "ended"
<1>1. Init => TodoInv
  BY DEF Init, TodoInv, Blocking, Coroutine
<1>2. Inv /\ TodoInv /\ [Next]_vars => [A]_vars
  BY StepNearer, OthersStay
<1>3. Inv /\ TodoInv /\ [Next]_vars => Inv' /\ TodoInv'
  BY InvStep, TodoStep
<1> QED
  BY InitInv, <1>1, <1>2, <1>3, PTL DEF Spec

-----------------------------------------------------------------------------
(* FlexCache. Three facts carry FreshReports: files only get newer (crc    *)
(* below dir), one request at a time is inside Load (so that the checksum  *)
(* in directoryCrc is still its own when it sets the cache), and the cache *)
(* covers directoryCrc whenever nobody is between the two.                 *)

LEMMA FlexBegins == ASSUME FlexInit PROVE FlexInv
<1>1. Nothing \in Directory /\ dir \in Directory
  BY VersionAssumption DEF FlexInit, Nothing, Directory
<1>2. FlexTypeOK
  BY <1>1 DEF FlexInit, FlexTypeOK, Waits
<1>3. OneLoads /\ CacheInv /\ ReadInv /\ FreshReports
  BY DEF FlexInit, OneLoads, CacheInv, ReadInv, FreshReports, InLoad
<1> QED
  BY <1>2, <1>3 DEF FlexInv

(* The numbers below are natural.                                          *)
LEMMA FlexVersions ==
  ASSUME FlexInv
  PROVE  /\ \A f \in File : dir[f] \in Nat /\ directoryCrc[f] \in Nat
         /\ \A c \in Client, f \in File :
              crc[c][f] \in Nat /\ report[c][f] \in Nat
         /\ reports # NoReport => \A f \in File : reports[f] \in Nat
BY VersionAssumption DEF FlexInv, FlexTypeOK, Directory

LEMMA WriteStep ==
  ASSUME FlexInv, NEW f \in File, Write(f)
  PROVE  FlexInv'
<1>1. dir' \in Directory /\ Covers(dir', dir)
  BY VersionAssumption, FlexVersions
     DEF Write, FlexInv, FlexTypeOK, Directory, Covers
<1>2. UNCHANGED <<directoryCrc, reports, at, crc, pending, report, between>>
  BY DEF Write, locals
<1>3. ReadInv'
  <2> SUFFICES ASSUME NEW c \in Client, at[c] \in {"wait", "read"}
               PROVE  Covers(dir', crc[c])
    BY <1>2 DEF ReadInv, Covers, FlexInv
  <2>1. Covers(dir, crc[c])
    BY DEF FlexInv, ReadInv
  <2>2. \A g \in File : dir'[g] \in Nat
    BY <1>1 DEF Directory
  <2> QED
    BY <1>1, <2>1, <2>2, FlexVersions DEF Covers
<1> QED
  BY <1>1, <1>2, <1>3
     DEF FlexInv, FlexTypeOK, OneLoads, CacheInv, FreshReports, Covers,
         Between

(* The steps that neither read nor store.                                  *)
LEMMA ReadyStep ==
  ASSUME FlexInv, NEW c \in Client, Ready(c)
  PROVE  FlexInv'
<1>1. FlexTypeOK'
  BY DEF Ready, FlexInv, FlexTypeOK, Waits, InLoad, Between
<1>2. OneLoads'
  BY DEF Ready, FlexInv, FlexTypeOK, OneLoads, InLoad
<1>3. Between' <=> Between
  BY DEF Ready, FlexInv, FlexTypeOK, Between
<1>4. CacheInv'
  BY <1>3 DEF Ready, FlexInv, CacheInv, Covers
<1>5. Covers(dir, dir)
  <2> SUFFICES ASSUME NEW f \in File PROVE dir[f] >= dir[f]
    BY DEF Covers
  <2>1. dir[f] \in 0..MaxVersion
    BY DEF FlexInv, FlexTypeOK, Directory
  <2> QED
    BY <2>1
<1>6. ReadInv'
  <2>1. crc'[c] = dir /\ at'[c] \in {"answer", "wait"}
    BY DEF Ready, FlexInv, FlexTypeOK
  <2>2. \A d \in Client \ {c} :
          crc'[d] = crc[d] /\ report'[d] = report[d] /\ at'[d] = at[d]
    BY DEF Ready, FlexInv, FlexTypeOK
  <2>3. UNCHANGED <<dir, directoryCrc, pending>>
    BY DEF Ready
  <2> QED
    BY <1>5, <2>1, <2>2, <2>3 DEF FlexInv, ReadInv, Covers
<1>7. FreshReports'
  BY DEF Ready, FlexInv, FlexTypeOK, CacheInv, FreshReports, Covers
<1> QED
  BY <1>1, <1>2, <1>4, <1>6, <1>7 DEF FlexInv

LEMMA OpensLockedStep ==
  ASSUME FlexInv, NEW c \in Client, OpensLocked(c)
  PROVE  FlexInv'
<1> USE DEF OpensLocked, Opens
<1>1. FlexTypeOK'
  BY DEF FlexInv, FlexTypeOK, Waits, InLoad
<1>2. OneLoads'
  BY DEF FlexInv, FlexTypeOK, OneLoads, InLoad
<1>3. Between' <=> Between
  BY DEF FlexInv, FlexTypeOK, Between
<1>4. CacheInv'
  BY <1>3 DEF FlexInv, CacheInv, Covers
<1>5. \A f \in File \ pending'[c] : report[c][f] >= crc[c][f]
  BY FlexVersions DEF FlexInv, FlexTypeOK, ReadInv, Covers
<1>6. ReadInv'
  BY <1>5 DEF FlexInv, FlexTypeOK, ReadInv, Covers
<1>7. FreshReports'
  BY DEF FlexInv, FlexTypeOK, FreshReports, Covers
<1> QED
  BY <1>1, <1>2, <1>4, <1>6, <1>7 DEF FlexInv

LEMMA ReadFileStep ==
  ASSUME FlexInv,
         NEW c \in Client, NEW f \in File, ReadFile(c, f)
  PROVE  FlexInv'
<1> USE DEF ReadFile
<1>1. FlexTypeOK'
  BY DEF FlexInv, FlexTypeOK, Directory
<1>2. OneLoads' /\ CacheInv'
  BY DEF FlexInv, OneLoads, CacheInv, Covers, Between
<1>3. \A d \in Client \ {c} :
        report'[d] = report[d] /\ pending'[d] = pending[d]
  BY DEF FlexInv, FlexTypeOK
<1>4. \A g \in File \ pending'[c] : report'[c][g] >= crc[c][g]
  BY DEF FlexInv, FlexTypeOK, Directory, ReadInv, Covers
<1>5. ReadInv'
  BY <1>3, <1>4 DEF FlexInv, ReadInv, Covers
<1>6. FreshReports'
  BY <1>3 DEF FlexInv, FreshReports, Covers
<1> QED
  BY <1>1, <1>2, <1>5, <1>6 DEF FlexInv

LEMMA StoreCrcStep ==
  ASSUME FlexInv, NEW c \in Client, StoreCrc(c)
  PROVE  FlexInv'
<1> USE DEF StoreCrc, locals
<1>1. FlexTypeOK'
  BY DEF FlexInv, FlexTypeOK, Waits, InLoad
<1>2. OneLoads'
  BY DEF FlexInv, FlexTypeOK, OneLoads, InLoad
<1>3. CacheInv'
  BY DEF FlexInv, FlexTypeOK, CacheInv, Between
<1>4. \A d \in Client \ {c} : at[d] # "store"
  BY DEF FlexInv, OneLoads, InLoad
<1>5. Covers(report[c], crc[c])
  BY DEF FlexInv, ReadInv, Covers
<1>6. ReadInv'
  BY <1>4, <1>5 DEF FlexInv, FlexTypeOK, ReadInv, Covers
<1>7. FreshReports'
  BY DEF FlexInv, FlexTypeOK, FreshReports, Covers
<1> QED
  BY <1>1, <1>2, <1>3, <1>6, <1>7 DEF FlexInv

LEMMA StoreCacheStep ==
  ASSUME FlexInv, NEW c \in Client, StoreCache(c)
  PROVE  FlexInv'
<1> USE DEF StoreCache, locals
<1>1. FlexTypeOK'
  BY DEF FlexInv, FlexTypeOK, Waits, InLoad
<1>2. OneLoads'
  BY DEF FlexInv, FlexTypeOK, OneLoads, InLoad
<1>3. CacheInv'
  BY DEF FlexInv, ReadInv, CacheInv, Covers
<1>4. ReadInv'
  BY DEF FlexInv, FlexTypeOK, ReadInv, Covers
<1>5. FreshReports'
  BY DEF FlexInv, FlexTypeOK, ReadInv, FreshReports, Covers
<1> QED
  BY <1>1, <1>2, <1>3, <1>4, <1>5 DEF FlexInv

(* Only where c stands changes, to where nothing is asked of it.           *)
LEMMA LeaveStep ==
  ASSUME FlexInv, NEW c \in Client,
         NotThere(c) \/ ReadFails(c) \/ Answer(c) \/ AnswerNothing(c)
           \/ Dereference(c)
  PROVE  FlexInv'
<1> USE DEF NotThere, ReadFails, Answer, AnswerNothing,
            Dereference, SendTradesEnds, locals
<1>0. Nothing \in Directory
  BY VersionAssumption DEF Nothing, Directory
<1>1. FlexTypeOK'
  <2>1. /\ at \in [Client -> Waits] /\ crc \in [Client -> Directory]
        /\ report \in [Client -> Directory]
        /\ pending \in [Client -> SUBSET File]
        /\ between \in [Client -> BOOLEAN]
    BY DEF FlexInv, FlexTypeOK
  <2>2. at' \in [Client -> Waits]
    BY <2>1 DEF Waits, InLoad
  <2>3. crc' \in [Client -> Directory] /\ report' \in [Client -> Directory]
    BY <1>0, <2>1
  <2>4. pending' \in [Client -> SUBSET File]
    BY <2>1
  <2>5. between' \in [Client -> BOOLEAN]
    BY <2>1
  <2>6. UNCHANGED <<dir, directoryCrc, reports>>
    OBVIOUS
  <2> QED
    BY <2>2, <2>3, <2>4, <2>5, <2>6 DEF FlexInv, FlexTypeOK
<1>2. OneLoads'
  BY DEF FlexInv, FlexTypeOK, OneLoads, InLoad
<1>3. Between' <=> Between
  BY DEF FlexInv, FlexTypeOK, Between
<1>4. CacheInv'
  BY <1>3 DEF FlexInv, CacheInv, Covers
<1>5. ReadInv'
  BY DEF FlexInv, FlexTypeOK, ReadInv, Covers
<1>6. FreshReports'
  BY DEF FlexInv, FlexTypeOK, FreshReports, Covers
<1> QED
  BY <1>1, <1>2, <1>4, <1>5, <1>6 DEF FlexInv

LEMMA FlexInvStep ==
  ASSUME FlexInv, [FlexNext]_flexVars PROVE FlexInv'
<1>1. CASE UNCHANGED flexVars
  BY <1>1
     DEF flexVars, locals, FlexInv, FlexTypeOK, OneLoads, CacheInv, ReadInv,
         FreshReports, Covers, Between
<1>2. CASE FlexNext
  BY <1>2, WriteStep, ReadyStep, OpensLockedStep, ReadFileStep, StoreCrcStep,
     StoreCacheStep, LeaveStep
     DEF FlexNext, SendTrades, LoadFiles
<1> QED
  BY <1>1, <1>2

(* FreshReports: but for the moment between the two stores, no request is  *)
(* answered with files older than when it came.                            *)
THEOREM Freshness == FlexSpec => []FreshReports
<1>1. FlexInv => FreshReports
  BY DEF FlexInv
<1>2. FlexInit => FlexInv
  BY FlexBegins
<1>3. FlexInv /\ [FlexNext]_flexVars => FlexInv'
  BY FlexInvStep
<1> QED
  BY <1>1, <1>2, <1>3, PTL DEF FlexSpec
-----------------------------------------------------------------------------
(* A request comes to an end: it goes through its stages, and reads each   *)
(* file once, also one that is added while it reads.                       *)
FlexStage(p) == CASE p = "wait" -> 0
                  [] p = "read" -> 1
                  [] p = "store" -> 2
                  [] p \in {"loaded", "failed", "answer", "error"} -> 3
                  [] OTHER -> 4

Unread(c) == {f \in File : report[c][f] = 0}

Advances(c) ==
  \/ FlexStage(at[c]) < FlexStage(at'[c])
  \/ /\ at[c] = "read" /\ at'[c] = "read"
     /\ Unread(c)' \subseteq Unread(c) /\ Unread(c)' # Unread(c)

LEMMA RequestAdvances ==
  ASSUME FlexInv, NEW c \in Client, SendTrades(c), at[c] # "idle"
  PROVE  crashed' \/ Advances(c)
<1> USE DEF FlexInv, FlexTypeOK, Advances, FlexStage
<1>1. CASE OpensLocked(c) \/ ReadFails(c) \/ StoreCrc(c) \/ StoreCache(c)
  <2>1. \/ at[c] = "wait" /\ at'[c] = "read"
        \/ at[c] = "read" /\ at'[c] \in {"failed", "store"}
        \/ at[c] = "store" /\ at'[c] = "loaded"
    BY <1>1 DEF OpensLocked, Opens, ReadFails, StoreCrc, StoreCache
  <2> QED
    BY <2>1
<1>2. ASSUME NEW f \in File, ReadFile(c, f) PROVE Advances(c)
  <2>1. /\ at[c] = "read" /\ at'[c] = "read"
        /\ report'[c] = [report[c] EXCEPT ![f] = dir[f]]
        /\ report[c] \in Directory
        /\ report[c][f] = 0 /\ dir[f] > 0 /\ dir[f] \in Nat
    BY <1>2, FlexVersions DEF ReadFile
  <2>2. Unread(c)' = Unread(c) \ {f} /\ f \in Unread(c)
    BY <2>1 DEF Unread, Directory
  <2> QED
    BY <2>1, <2>2
<1>3. CASE Answer(c) \/ AnswerNothing(c)
  <2>1. /\ at[c] \in {"answer", "loaded", "error", "failed"}
        /\ at'[c] = "idle"
    BY <1>3 DEF Answer, AnswerNothing, SendTradesEnds
  <2> QED
    BY <2>1
<1>4. CASE Dereference(c)
  BY <1>4 DEF Dereference
<1>5. CASE NotThere(c) \/ Ready(c)
  BY <1>5 DEF NotThere, Ready
<1> QED
  BY <1>1, <1>2, <1>3, <1>4, <1>5 DEF SendTrades, LoadFiles

LEMMA RequestsApart ==
  ASSUME FlexInv, FlexNext, NEW c \in Client, ~SendTrades(c)
  PROVE  at'[c] = at[c] /\ report'[c] = report[c]
<1>1. CASE \E f \in File : Write(f)
  BY <1>1 DEF Write, locals
<1>2. ASSUME NEW d \in Client \ {c}, SendTrades(d)
      PROVE  at'[c] = at[c] /\ report'[c] = report[c]
  <2> USE DEF FlexInv, FlexTypeOK, locals
  <2>1. CASE NotThere(d) \/ Ready(d) \/ Answer(d) \/ AnswerNothing(d)
               \/ Dereference(d)
    BY <2>1 DEF NotThere, Ready, Answer, AnswerNothing, Dereference,
                SendTradesEnds
  <2>2. CASE LoadFiles(d)
    BY <2>2 DEF LoadFiles, OpensLocked, Opens, ReadFile, ReadFails, StoreCrc,
                StoreCache
  <2> QED
    BY <1>2, <2>1, <2>2 DEF SendTrades
<1> QED
  BY <1>1, <1>2 DEF FlexNext

(* A request that has the lock gives it back after so many steps, though   *)
(* files are added while it reads and reading fails, unless the process    *)
(* ends; and nobody else sets it back. (EveryRequestEnds needs this, and   *)
(* that a request that has come can take a step.)                          *)
THEOREM RequestIsBounded ==
  FlexSpec => [][\A c \in Client : at[c] # "idle" =>
                   IF SendTrades(c) THEN crashed' \/ Advances(c)
                   ELSE at'[c] = at[c] /\ report'[c] = report[c]]_flexVars
<1> DEFINE A == \A c \in Client : at[c] # "idle" =>
                  IF SendTrades(c) THEN crashed' \/ Advances(c)
                  ELSE at'[c] = at[c] /\ report'[c] = report[c]
<1>1. FlexInv /\ [FlexNext]_flexVars => [A]_flexVars
  BY RequestAdvances, RequestsApart
<1>2. FlexInit => FlexInv
  BY FlexBegins
<1>3. FlexInv /\ [FlexNext]_flexVars => FlexInv'
  BY FlexInvStep
<1> QED
  BY <1>1, <1>2, <1>3, PTL DEF FlexSpec
==============================================================================
