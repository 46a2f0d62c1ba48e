----------------------------- MODULE TweetSearch -----------------------------
(***************************************************************************)
(* Searches for tweets about a symbol, and the blocking of authors:        *)
(* requests/Twitter.cpp.                                                   *)
(*                                                                         *)
(* What was found about a symbol is stored in a file and cached. A search  *)
(* that finds the store fresh pushes it; else it asks Twitter for what was *)
(* published since, adds it and stores it again. One search at a time may  *)
(* work on a symbol. Authors of spam are blocked, at Twitter if the        *)
(* application may do that, and recorded in the data base; a client may    *)
(* also ask for an author to be blocked.                                   *)
(*                                                                         *)
(* A point in time is the set of tweets published by then. A coroutine     *)
(* that has ended stands for the next one, too. The server may stop at any *)
(* time and start again. What is pushed to the client is left out, but     *)
(* for its being told that an author is blocked.                           *)
(*                                                                         *)
(* External: Twitter, the data base, the lock by key, and that a file that *)
(* was being written when the server stopped cannot be loaded.             *)
(***************************************************************************)
EXTENDS Integers

CONSTANTS
  Symbol, Tweet, Author,
  author,      (* who wrote a tweet                                        *)
  Spam,        (* tweets with more than four tags                          *)
  Search,      (* coroutines of Twitter::Search                            *)
  Request,     (* coroutines of Twitter::Block                             *)
  MaxPages,    (* pages a search asks for at most: 10                      *)
  MaxAge,      (* bound: how old a tweet gets                              *)
  None

Coroutine == Search \cup Request

ASSUME TweetAssumption == author \in [Tweet -> Author] /\ Spam \subseteq Tweet
ASSUME CoroutineAssumption == Search \cap Request = {}
ASSUME PagesAssumption == MaxPages \in Nat \ {0}
ASSUME AgeAssumption == MaxAge \in [Tweet -> 0..3]

(* Tweets: those found, update_time, and whether that was less than 20     *)
(* minutes ago.                                                            *)
Tweets == [values : SUBSET Tweet, upTo : SUBSET Tweet, fresh : BOOLEAN]
NoTweets == [values |-> {}, upTo |-> {}, fresh |-> FALSE]

(* symbol, pExisting, now, what Twitter has yet to send, pages asked for,  *)
(* pBlockedUsers, newBlockedUsers and those of them still to be blocked.   *)
Job == [symbol : Symbol, found : Tweets, now : SUBSET Tweet, recent : BOOLEAN,
        window : SUBSET Tweet, page : 0..MaxPages, blocked : SUBSET Author,
        spammers : SUBSET Author, todo : SUBSET Author]

ASSUME NoneAssumption == None \notin Tweets \cup Job \cup Author

VARIABLES
  age,       (* of a tweet: 0 not published, 1 up to a day, 2 a week, 3    *)
  canBlock,  (* CanBlock                                                   *)
  blocks,    (* the cache "twt_blocks": the one set that is in it, if any  *)
  cache,     (* the caches "Tweets.<symbol>"                               *)
  file,      (* the files <symbol>.dat                                     *)
  recorded,  (* external: authors the data base has as blocked             *)
  atTwitter, (* external: authors blocked at Twitter                       *)
  pc,        (* where a coroutine stands                                   *)
  job,       (* the variables of a search                                  *)
  user,      (* the author a coroutine blocks                              *)
  kept,      (* history: tweets that were stored for a symbol              *)
  skipped    (* history: tweets a search for a symbol did without          *)

historyVars == <<kept, skipped>>
vars == <<age, canBlock, blocks, cache, file, recorded, atTwitter, pc, job,
          user, historyVars>>

NewJob(s) == [symbol |-> s, found |-> NoTweets, now |-> {}, recent |-> FALSE,
              window |-> {}, page |-> 0, blocked |-> {}, spammers |-> {},
              todo |-> {}]

Init ==
  /\ age = [t \in Tweet |-> 0]
  /\ canBlock = TRUE
  /\ blocks = {}
  /\ cache = [s \in Symbol |-> None]
  /\ file = [s \in Symbol |-> None]
  /\ recorded = {}
  /\ atTwitter = {}
  /\ pc = [c \in Coroutine |-> "ended"]
  /\ job = [c \in Search |-> None]
  /\ user = [c \in Coroutine |-> None]
  /\ kept = [s \in Symbol |-> {}]
  /\ skipped = [s \in Symbol |-> {}]

-----------------------------------------------------------------------------
(* Time.                                                                   *)

Publish(t) ==
  /\ age[t] < MaxAge[t]
  /\ age' = [age EXCEPT ![t] = @ + 1]
  /\ UNCHANGED <<canBlock, blocks, cache, file, recorded, atTwitter, pc, job,
                 user, historyVars>>

Stale(store) == IF store = None THEN None ELSE [store EXCEPT !.fresh = FALSE]

(* 20 minutes pass.                                                        *)
Elapse ==
  /\ cache' = [s \in Symbol |-> Stale(cache[s])]
  /\ file' = [s \in Symbol |-> Stale(file[s])]
  /\ job' = [c \in Search |-> IF job[c] = None THEN None ELSE
               [job[c] EXCEPT !.found.fresh = FALSE, !.recent = FALSE]]
  /\ UNCHANGED <<age, canBlock, blocks, recorded, atTwitter, pc, user,
                 historyVars>>

-----------------------------------------------------------------------------
(* Search: the store.                                                      *)

SearchBegins(c, s) ==
  /\ pc[c] = "ended"
  /\ pc' = [pc EXCEPT ![c] = "waiting"]
  /\ job' = [job EXCEPT ![c] = NewJob(s)]
  /\ UNCHANGED <<age, canBlock, blocks, cache, file, recorded, atTwitter, user,
                 historyVars>>

(* The states in which a search has the lock of its symbol.                *)
Inside == {"load", "select", "fetch", "push", "block", "asking",
           "refused", "granted", "record", "tags", "save", "saving", "cache"}

(* Fault: the lock is left out.                                            *)
AcquireNot(c) ==
  /\ pc[c] = "waiting"
  /\ pc' = [pc EXCEPT ![c] = "load"]
  /\ UNCHANGED <<age, canBlock, blocks, cache, file, recorded, atTwitter, job,
                 user, historyVars>>

(* co_await CoLockKey                                                      *)
Acquire(c) ==
  /\ pc[c] = "waiting"
  /\ \A d \in Search : pc[d] \in Inside => job[d].symbol # job[c].symbol
  /\ pc' = [pc EXCEPT ![c] = "load"]
  /\ UNCHANGED <<age, canBlock, blocks, cache, file, recorded, atTwitter, job,
                 user, historyVars>>

Ends(c) ==
  /\ pc' = [pc EXCEPT ![c] = "ended"]
  /\ job' = [job EXCEPT ![c] = None]

(* Cache::Get, else TryLoad.                                               *)
Existing(s) == IF cache[s] # None THEN cache[s]
               ELSE IF file[s] # None THEN file[s] ELSE NoTweets

Published == {t \in Tweet : age[t] > 0}

(* The tweets are pushed, or those of the last seven days are copied.      *)
Load(c) ==
  LET existing == Existing(job[c].symbol) IN
  /\ pc[c] = "load"
  /\ IF existing.fresh /\ existing.values # {}
     THEN /\ pc' = [pc EXCEPT ![c] = "authors"]
          /\ UNCHANGED job
     ELSE /\ pc' = [pc EXCEPT ![c] = "select"]
          /\ job' = [job EXCEPT
               ![c].found = [existing EXCEPT
                               !.values = {t \in @ : age[t] < 3}],
               ![c].now = Published,
               ![c].recent = TRUE]
  /\ UNCHANGED <<age, canBlock, blocks, cache, file, recorded, atTwitter, user,
                 historyVars>>

(* pBlockedUsers comes from the cache; SelectSet fills it. The query is    *)
(* for what was published since update_time, a day ago at most, and for    *)
(* some of what was published before.                                      *)
Select(c) ==
  /\ pc[c] = "select"
  /\ pc' = [pc EXCEPT ![c] = "fetch"]
  /\ \E users \in IF blocks = {} THEN {recorded} ELSE blocks,
        old \in SUBSET job[c].found.upTo :
       /\ blocks' = {users}
       /\ job' = [job EXCEPT
         ![c].blocked = users,
         ![c].window = {t \in Tweet : /\ age[t] = 1
                                      /\ t \in job[c].found.upTo => t \in old}]
  /\ UNCHANGED <<age, canBlock, cache, file, recorded, atTwitter, user,
                 historyVars>>

(* The data base fails: the coroutine ends with the exception.             *)
SelectFails(c) ==
  /\ pc[c] = "select"
  /\ Ends(c)
  /\ UNCHANGED <<age, canBlock, blocks, cache, file, recorded, atTwitter, user,
                 historyVars>>

-----------------------------------------------------------------------------
(* Search: pages from Twitter.                                             *)

By(tweets) == {author[t] : t \in tweets}

(* The loop is over, and its variables with it.                            *)
Fetched(j) == [j EXCEPT !.window = {}, !.page = 0, !.now = {}, !.recent = FALSE]

(* All was fetched as of the time the search began.                        *)
Checked(j) == Fetched([j EXCEPT !.found.upTo = j.now, !.found.fresh = j.recent])

(* A page of tweets. Those of blocked authors are left out, and those an   *)
(* author of spam has further down the page than the spam.                 *)
FetchPage(c) ==
  LET j == job[c] IN
  /\ pc[c] = "fetch"
  /\ \E tweets \in SUBSET j.window :
       LET known   == j.blocked \cup j.spammers
           fromNew == {t \in tweets : author[t] \notin known}
           new     == By(fromNew \cap Spam)
           last    == tweets = j.window \/ j.page + 1 = MaxPages
       IN \E values \in SUBSET (fromNew \ Spam) :
            /\ \A t \in fromNew \ Spam : author[t] \notin new => t \in values
            /\ LET next == [j EXCEPT !.found.values = @ \cup values,
                                     !.spammers = @ \cup new,
                                     !.window = @ \ tweets,
                                     !.page = @ + 1]
               IN job' = [job EXCEPT ![c] = IF last THEN Checked(next) ELSE next]
            /\ pc' = [pc EXCEPT ![c] = IF last THEN "push" ELSE "fetch"]
            /\ skipped' = [skipped EXCEPT
                 ![j.symbol] = IF last THEN @ \cup ((j.window \ tweets) \ Spam)
                               ELSE @]
  /\ UNCHANGED <<age, canBlock, blocks, cache, file, recorded, atTwitter, user,
                 kept>>

(* Fault: a page that is no JSON is asked for again without being counted  *)
(* against the limit.                                                      *)
NotJsonUncounted(c) ==
  /\ pc[c] = "fetch"
  /\ job[c].page > 0
  /\ job' = [job EXCEPT ![c].page = @ + 1]
  /\ UNCHANGED <<age, canBlock, blocks, cache, file, recorded, atTwitter, pc,
                 user, historyVars>>

(* A page that is no JSON. The first one ends the loop; the others are     *)
(* asked for again.                                                        *)
NotJson(c) ==
  LET j    == job[c]
      last == j.page = 0 \/ j.page + 1 = MaxPages
      next == [j EXCEPT !.page = @ + 1]
  IN
  /\ pc[c] = "fetch"
  /\ job' = [job EXCEPT ![c] = IF last THEN Checked(next) ELSE next]
  /\ pc' = [pc EXCEPT ![c] = IF last THEN "push" ELSE "fetch"]
  /\ skipped' = [skipped EXCEPT
       ![j.symbol] = IF last THEN @ \cup (j.window \ Spam) ELSE @]
  /\ UNCHANGED <<age, canBlock, blocks, cache, file, recorded, atTwitter, user,
                 kept>>

(* Fault: lastChecked is set although a page is missing.                   *)
FetchFailsChecked(c) ==
  /\ pc[c] = "fetch"
  /\ pc' = [pc EXCEPT ![c] = "push"]
  /\ job' = [job EXCEPT ![c] = Checked(@)]
  /\ UNCHANGED <<age, canBlock, blocks, cache, file, recorded, atTwitter, user,
                 historyVars>>

(* Twitter cannot be reached: an error is pushed, and the search goes on   *)
(* with what it has.                                                       *)
FetchFails(c) ==
  /\ pc[c] = "fetch"
  /\ pc' = [pc EXCEPT ![c] = "push"]
  /\ job' = [job EXCEPT ![c] = Fetched(@)]
  /\ UNCHANGED <<age, canBlock, blocks, cache, file, recorded, atTwitter, user,
                 historyVars>>

PushTweets(c) ==
  /\ pc[c] = "push"
  /\ IF job[c].spammers = {}
     THEN /\ pc' = [pc EXCEPT ![c] = "save"]
          /\ job' = [job EXCEPT ![c].blocked = {}]
     ELSE /\ pc' = [pc EXCEPT ![c] = "block"]
          /\ job' = [job EXCEPT ![c].todo = job[c].spammers]
  /\ UNCHANGED <<age, canBlock, blocks, cache, file, recorded, atTwitter, user,
                 historyVars>>

-----------------------------------------------------------------------------
(* Blocking an author: Block2, for a search or for a client's request.     *)

(* CanBlock is tested; if it is not set the author is only recorded.       *)
BlockAuthor(c, a) ==
  /\ user' = [user EXCEPT ![c] = a]
  /\ pc' = [pc EXCEPT ![c] = IF canBlock THEN "asking" ELSE "record"]

(* Twitter answers: "CanBlock = ...HasError()".                            *)
Block2(c, error) ==
  /\ pc[c] = "asking"
  /\ canBlock' = error
  /\ atTwitter' = IF error THEN atTwitter ELSE atTwitter \cup {user[c]}
  /\ pc' = [pc EXCEPT ![c] = IF error THEN "refused" ELSE "granted"]
  /\ UNCHANGED <<age, blocks, cache, file, recorded, job, user, historyVars>>

(* A search: each author of spam it has found.                             *)
BlockSpammer(c) ==
  /\ pc[c] = "block"
  /\ \E a \in job[c].todo : BlockAuthor(c, a)
  /\ UNCHANGED <<age, canBlock, blocks, cache, file, recorded, atTwitter, job,
                 historyVars>>

(* "CanBlock = !...HasError()"                                             *)
SpammerAnswered(c) ==
  /\ pc[c] \in {"refused", "granted"}
  /\ canBlock' = (pc[c] = "granted")
  /\ pc' = [pc EXCEPT ![c] = "record"]
  /\ UNCHANGED <<age, blocks, cache, file, recorded, atTwitter, job, user,
                 historyVars>>

(* "twt_user_block(?)"                                                     *)
RecordSpammer(c) ==
  /\ pc[c] = "record"
  /\ recorded' = recorded \cup {user[c]}
  /\ job' = [job EXCEPT ![c].todo = @ \ {user[c]}]
  /\ pc' = [pc EXCEPT ![c] = IF job'[c].todo = {} THEN "tags" ELSE "block"]
  /\ user' = [user EXCEPT ![c] = None]
  /\ UNCHANGED <<age, canBlock, blocks, cache, file, atTwitter, historyVars>>

(* The set read before is copied, with the new ones: what other searches   *)
(* have added since is lost to the cache.                                  *)
CacheBlocks(c) ==
  /\ pc[c] = "tags"
  /\ blocks' = {job[c].blocked \cup job[c].spammers}
  /\ pc' = [pc EXCEPT ![c] = "save"]
  /\ job' = [job EXCEPT ![c].blocked = {}, ![c].spammers = {}]
  /\ UNCHANGED <<age, canBlock, cache, file, recorded, atTwitter, user,
                 historyVars>>

(* The same, but "twt_tag_ignore(?,?)" fails.                              *)
CacheTagsFails(c) ==
  /\ pc[c] = "tags"
  /\ blocks' = {job[c].blocked \cup job[c].spammers}
  /\ Ends(c)
  /\ UNCHANGED <<age, canBlock, cache, file, recorded, atTwitter, user,
                 historyVars>>

(* The data base fails, or the file cannot be opened: an error is pushed,  *)
(* nothing is stored.                                                      *)
SearchFails(c) ==
  /\ pc[c] \in {"record", "save"}
  /\ Ends(c)
  /\ user' = [user EXCEPT ![c] = None]
  /\ UNCHANGED <<age, canBlock, blocks, cache, file, recorded, atTwitter,
                 historyVars>>

(* A client's request.                                                     *)
RequestBegins(c, a) ==
  /\ pc[c] = "ended"
  /\ BlockAuthor(c, a)
  /\ UNCHANGED <<age, canBlock, blocks, cache, file, recorded, atTwitter, job,
                 historyVars>>

(* "if( !CanBlock )//above can update": else the client is told at once.   *)
RequestAnswered(c) ==
  /\ pc[c] \in {"refused", "granted"}
  /\ pc' = [pc EXCEPT ![c] = IF canBlock THEN "success" ELSE "record"]
  /\ UNCHANGED <<age, canBlock, blocks, cache, file, recorded, atTwitter, job,
                 user, historyVars>>

RecordRequest(c) ==
  /\ pc[c] = "record"
  /\ recorded' = recorded \cup {user[c]}
  /\ pc' = [pc EXCEPT ![c] = "success"]
  /\ UNCHANGED <<age, canBlock, blocks, cache, file, atTwitter, job, user,
                 historyVars>>

(* The client is told: of success, or that the data base failed.           *)
RequestEnds(c) ==
  /\ pc[c] \in {"success", "record"}
  /\ pc' = [pc EXCEPT ![c] = "ended"]
  /\ user' = [user EXCEPT ![c] = None]
  /\ UNCHANGED <<age, canBlock, blocks, cache, file, recorded, atTwitter, job,
                 historyVars>>

-----------------------------------------------------------------------------
(* Search: storing what was found.                                         *)

SaveBegins(c) ==
  /\ pc[c] = "save"
  /\ pc' = [pc EXCEPT ![c] = "saving"]
  /\ UNCHANGED <<age, canBlock, blocks, cache, file, recorded, atTwitter, job,
                 user, historyVars>>

SaveEnds(c) ==
  /\ pc[c] = "saving"
  /\ file' = [file EXCEPT ![job[c].symbol] = job[c].found]
  /\ pc' = [pc EXCEPT ![c] = "cache"]
  /\ UNCHANGED <<age, canBlock, blocks, cache, recorded, atTwitter, job, user,
                 historyVars>>

CacheTweets(c) ==
  LET j == job[c] IN
  /\ pc[c] = "cache"
  /\ cache' = [cache EXCEPT ![j.symbol] = j.found]
  /\ kept' = [kept EXCEPT ![j.symbol] = @ \cup j.found.values]
  /\ pc' = [pc EXCEPT ![c] = "authors"]
  /\ job' = [job EXCEPT ![c] = NewJob(j.symbol)]
  /\ UNCHANGED <<age, canBlock, blocks, file, recorded, atTwitter, user,
                 skipped>>

(* A coroutine of its own, the lock is given back.                         *)
SendAuthors(c) ==
  /\ pc[c] = "authors"
  /\ Ends(c)
  /\ UNCHANGED <<age, canBlock, blocks, cache, file, recorded, atTwitter, user,
                 historyVars>>

BeingWritten(s) == \E c \in Search : pc[c] = "saving" /\ job[c].symbol = s

(* The server stops and starts again. A file that was being written is     *)
(* lost.                                                                   *)
Restart ==
  /\ canBlock' = TRUE
  /\ blocks' = {}
  /\ cache' = [s \in Symbol |-> None]
  /\ pc' = [c \in Coroutine |-> "ended"]
  /\ job' = [c \in Search |-> None]
  /\ user' = [c \in Coroutine |-> None]
  /\ file' = [s \in Symbol |-> IF BeingWritten(s) THEN None ELSE file[s]]
  /\ kept' = [s \in Symbol |-> IF BeingWritten(s) THEN {} ELSE kept[s]]
  /\ UNCHANGED <<age, recorded, atTwitter, skipped>>

-----------------------------------------------------------------------------
SearchStep(c) ==
  \/ Acquire(c) \/ Load(c)
  \/ Select(c) \/ SelectFails(c)
  \/ FetchPage(c) \/ NotJson(c) \/ FetchFails(c)
  \/ PushTweets(c)
  \/ BlockSpammer(c) \/ \E error \in BOOLEAN : Block2(c, error)
  \/ SpammerAnswered(c) \/ RecordSpammer(c)
  \/ CacheBlocks(c) \/ CacheTagsFails(c)
  \/ SearchFails(c)
  \/ SaveBegins(c) \/ SaveEnds(c) \/ CacheTweets(c)
  \/ SendAuthors(c)

RequestStep(c) ==
  \/ \E error \in BOOLEAN : Block2(c, error)
  \/ RequestAnswered(c) \/ RecordRequest(c) \/ RequestEnds(c)

Next ==
  \/ \E t \in Tweet : Publish(t)
  \/ Elapse
  \/ \E c \in Search : SearchStep(c) \/ \E s \in Symbol : SearchBegins(c, s)
  \/ \E c \in Request : RequestStep(c) \/ \E a \in Author : RequestBegins(c, a)
  \/ Restart

Spec == Init /\ [][Next]_vars

-----------------------------------------------------------------------------
TypeOK ==
  /\ age \in [Tweet -> 0..3]
  /\ canBlock \in BOOLEAN
  /\ blocks \subseteq SUBSET Author
  /\ cache \in [Symbol -> Tweets \cup {None}]
  /\ file \in [Symbol -> Tweets \cup {None}]
  /\ recorded \subseteq Author
  /\ atTwitter \subseteq Author
  /\ pc \in [Coroutine -> Inside \cup {"ended", "waiting", "authors",
                                   "success"}]
  /\ job \in [Search -> Job \cup {None}]
  /\ \A c \in Search : pc[c] # "ended" => job[c] # None
  /\ user \in [Coroutine -> Author \cup {None}]
  /\ kept \in [Symbol -> SUBSET Tweet]
  /\ skipped \in [Symbol -> SUBSET Tweet]

(* What was stored for a symbol is still there for the next search, for    *)
(* seven days: whatever fails later, also when the server starts again,    *)
(* and when searches for a symbol come at once. (A file that was being     *)
(* written when the server stopped is lost with all it had.)               *)
NothingForgotten ==
  \A s \in Symbol :
    \A t \in kept[s] : age[t] = 3 \/ t \in Existing(s).values

(* No tweet of the last day falls into a gap between two searches: what    *)
(* was published before update_time is stored, though fetches fail in the  *)
(* middle and searches end without storing what they found; unless its     *)
(* author is recorded as blocked, or a page was no JSON or beyond the last *)
(* page.                                                                   *)
NoGap ==
  \A s \in Symbol : \A t \in Existing(s).upTo \ Spam :
    \/ t \in Existing(s).values
    \/ age[t] > 1
    \/ author[t] \in recorded
    \/ t \in skipped[s]

(* "CanBlock=true;//app may not have permissions" and "if( !CanBlock )//   *)
(* above can update": a client that is told of success has the author      *)
(* blocked at Twitter, or recorded if the application may not block.       *)
SuccessMeansBlocked ==
  \A c \in Request : pc[c] = "success" => user[c] \in atTwitter \cup recorded

-----------------------------------------------------------------------------
(* Why the invariants hold: the parts of the inductive invariant.          *)
Blocking == {"asking", "refused", "granted", "record"}

UserInv == \A c \in Coroutine : pc[c] \in Blocking => user[c] \in Author

LockInv ==
  \A c, d \in Search :
    /\ pc[c] \in Inside /\ pc[d] \in Inside
    /\ job[c].symbol = job[d].symbol
    => c = d

(* What a store for a symbol must have, of all and of those it has checked *)
(* for.                                                                    *)
Held == [s \in Symbol |-> {t \in kept[s] : age[t] < 3}]
Wanted == [s \in Symbol |->
  {t \in Tweet \ Spam : /\ age[t] <= 1
                        /\ author[t] \notin recorded
                        /\ t \notin skipped[s]}]

Sound(s, store) == /\ Held[s] \subseteq store.values
                   /\ Wanted[s] \cap store.upTo \subseteq store.values

(* Cache and file are each sound, as either may be the one that is read.   *)
StoreInv ==
  \A s \in Symbol :
    /\ cache[s] # None => Sound(s, cache[s])
    /\ IF file[s] = None THEN Held[s] = {} ELSE Sound(s, file[s])

(* Who is in the cache of blocked authors is recorded.                     *)
BlockInv == \A users \in blocks : users \subseteq recorded

(* A search takes those it knows to be blocked from that cache. Those it   *)
(* finds are recorded before it goes on. It lacks nothing that it must not *)
(* lack, but from authors it has yet to record: what was published when it *)
(* began is on a page that is still to come.                               *)
SearchInv(c) ==
  LET j == job[c] IN
  /\ j.page < MaxPages
  /\ j.blocked \subseteq recorded
  /\ pc[c] \in {"waiting", "load", "select", "save", "saving", "cache"} =>
       j.spammers = {}
  /\ pc[c] \in Blocking \cup {"block", "tags"} =>
       j.spammers \ j.todo \subseteq recorded
  /\ pc[c] = "tags" => j.todo = {}
  /\ pc[c] = "select" => j.now \subseteq Published
  /\ pc[c] = "fetch" =>
       \A t \in Wanted[j.symbol] \cap j.now :
         t \in j.found.values \cup j.window \/ author[t] \in j.spammers
  /\ pc[c] \in Inside \ {"load"} =>
       /\ Held[j.symbol] \subseteq j.found.values
       /\ \A t \in Wanted[j.symbol] \cap j.found.upTo :
            t \in j.found.values \/ author[t] \in j.spammers
  /\ pc[c] = "cache" => /\ file[j.symbol] # None
                        /\ file[j.symbol].values = j.found.values

Inv == /\ TypeOK /\ UserInv /\ LockInv /\ StoreInv /\ BlockInv
       /\ \A c \in Search : job[c] # None => SearchInv(c)
=============================================================================
