------------------------------ MODULE FlexCache ------------------------------
(***************************************************************************)
(* Reports of trades from a directory of Flex queries: Flex.cpp.           *)
(*                                                                         *)
(* A request computes a checksum of the names and times of the files. If   *)
(* the cache was filled under that checksum it is answered from the cache; *)
(* else it waits for a lock, reads the files, one await each, and fills    *)
(* the cache. Somebody else adds and changes files meanwhile.              *)
(*                                                                         *)
(* A checksum is the version of every file: two states of the directory    *)
(* that differ have different checksums, and files are not removed. A      *)
(* report is the versions that were read. A coroutine that has ended       *)
(* stands for the next request, too. External: the file system, the lock.  *)
(*                                                                         *)
(* No name here is one of TweetSearch's: StoreProofs extends both.         *)
(***************************************************************************)
EXTENDS Integers

CONSTANTS
  File,
  Client,      (* coroutines of SendTrades                                 *)
  MaxVersion,  (* bound: how often a file is written                       *)
  NoReport

ASSUME VersionAssumption == MaxVersion \in Nat \ {0}

Directory == [File -> 0..MaxVersion]   (* 0: the file is not there         *)

ASSUME NoReportAssumption == NoReport \notin Directory

VARIABLES
  dir,           (* external: the files                                    *)
  directoryCrc,  (* DirectoryCrc                                           *)
  reports,       (* the cache "Flex::SendTrades"                           *)
  at,            (* where a request stands                                 *)
  crc,           (* _crc of a request                                      *)
  pending,       (* files that were there when it began to read            *)
  report,        (* what it has read, or what it answers                   *)
  between,       (* history: hit while another was between 128 and 130     *)
  crashed        (* the process has ended                                  *)

locals == <<crc, pending, report, between>>
flexVars == <<dir, directoryCrc, reports, at, locals, crashed>>

Nothing == [f \in File |-> 0]

FlexInit ==
  /\ dir \in [File -> {0, 1}]
  /\ directoryCrc = Nothing
  /\ reports = NoReport
  /\ at = [c \in Client |-> "idle"]
  /\ crc = [c \in Client |-> Nothing]
  /\ pending = [c \in Client |-> {}]
  /\ report = [c \in Client |-> Nothing]
  /\ between = [c \in Client |-> FALSE]
  /\ crashed = FALSE

(* A file is added or changed.                                             *)
Write(f) ==
  /\ dir[f] < MaxVersion
  /\ dir' = [dir EXCEPT ![f] = @ + 1]
  /\ UNCHANGED <<directoryCrc, reports, at, locals, crashed>>

-----------------------------------------------------------------------------
(* await_ready                                                             *)

(* The path does not exist.                                                *)
NotThere(c) ==
  /\ at[c] = "idle"
  /\ dir = Nothing
  /\ at' = [at EXCEPT ![c] = "error"]
  /\ UNCHANGED <<dir, directoryCrc, reports, locals, crashed>>

(* Somebody has stored the checksum, but not yet the cache.                *)
Between == \E d \in Client : at[d] = "store"

Ready(c) ==
  /\ at[c] = "idle"
  /\ crc' = [crc EXCEPT ![c] = dir]
  /\ IF dir = directoryCrc /\ reports # NoReport
     THEN /\ at' = [at EXCEPT ![c] = "answer"]
          /\ report' = [report EXCEPT ![c] = reports]
          /\ between' = [between EXCEPT ![c] = Between]
     ELSE /\ at' = [at EXCEPT ![c] = "wait"]
          /\ UNCHANGED <<report, between>>
  /\ UNCHANGED <<dir, directoryCrc, reports, pending, crashed>>

-----------------------------------------------------------------------------
(* Load                                                                    *)

(* The guard lives until Load has resumed SendTrades, which pushes.        *)
InLoad == {"read", "store", "loaded", "failed"}

Opens(c) ==
  /\ at[c] = "wait"
  /\ at' = [at EXCEPT ![c] = "read"]
  /\ pending' = [pending EXCEPT ![c] = {f \in File : dir[f] > 0}]
  /\ UNCHANGED <<dir, directoryCrc, reports, crc, report, between, crashed>>

(* Fault: the lock is left out.                                            *)
OpensUnlocked(c) == Opens(c)

OpensLocked(c) ==
  /\ \A d \in Client : at[d] \notin InLoad
  /\ Opens(c)

(* A file that is added after the directory was opened may be found.       *)
ReadFile(c, f) ==
  /\ at[c] = "read"
  /\ dir[f] > 0
  /\ report[c][f] = 0
  /\ report' = [report EXCEPT ![c][f] = dir[f]]
  /\ pending' = [pending EXCEPT ![c] = @ \ {f}]
  /\ UNCHANGED <<dir, directoryCrc, reports, at, crc, between, crashed>>

(* Fault: Load catches nothing; nobody resumes SendTrades.                 *)
ReadFailsUncaught(c) ==
  /\ at[c] = "read"
  /\ at' = [at EXCEPT ![c] = "gone"]
  /\ UNCHANGED <<dir, directoryCrc, reports, locals, crashed>>

(* An exception becomes the result, SendTrades is resumed.                 *)
ReadFails(c) ==
  /\ at[c] = "read"
  /\ at' = [at EXCEPT ![c] = "failed"]
  /\ UNCHANGED <<dir, directoryCrc, reports, locals, crashed>>

(* "DirectoryCrc = _crc"                                                   *)
StoreCrc(c) ==
  /\ at[c] = "read"
  /\ pending[c] = {}
  /\ directoryCrc' = crc[c]
  /\ at' = [at EXCEPT ![c] = "store"]
  /\ UNCHANGED <<dir, reports, locals, crashed>>

(* Cache::Set                                                              *)
StoreCache(c) ==
  /\ at[c] = "store"
  /\ reports' = report[c]
  /\ at' = [at EXCEPT ![c] = "loaded"]
  /\ UNCHANGED <<dir, directoryCrc, locals, crashed>>

-----------------------------------------------------------------------------
(* SendTrades                                                              *)

SendTradesEnds(c) ==
  /\ at' = [at EXCEPT ![c] = "idle"]
  /\ crc' = [crc EXCEPT ![c] = Nothing]
  /\ pending' = [pending EXCEPT ![c] = {}]
  /\ report' = [report EXCEPT ![c] = Nothing]
  /\ between' = [between EXCEPT ![c] = FALSE]

(* The trades and orders of the days asked for are pushed.                 *)
Answer(c) ==
  /\ at[c] \in {"answer", "loaded"}
  /\ SendTradesEnds(c)
  /\ UNCHANGED <<dir, directoryCrc, reports, crashed>>

(* After an error is pushed pData is null. It is not used if the client    *)
(* has asked for no days.                                                  *)
AnswerNothing(c) ==
  /\ at[c] \in {"error", "failed"}
  /\ SendTradesEnds(c)
  /\ UNCHANGED <<dir, directoryCrc, reports, crashed>>

Dereference(c) ==
  /\ at[c] \in {"error", "failed"}
  /\ crashed' = TRUE
  /\ UNCHANGED <<dir, directoryCrc, reports, at, locals>>

-----------------------------------------------------------------------------
LoadFiles(c) == \/ OpensLocked(c)
                \/ \E f \in File : ReadFile(c, f)
                \/ ReadFails(c)
                \/ StoreCrc(c) \/ StoreCache(c)

SendTrades(c) == NotThere(c) \/ Ready(c) \/ LoadFiles(c)
                   \/ Answer(c) \/ AnswerNothing(c) \/ Dereference(c)

FlexNext == \/ \E f \in File : Write(f)
            \/ ~crashed /\ \E c \in Client : SendTrades(c)

FlexSpec == FlexInit /\ [][FlexNext]_flexVars

(* Coroutines go on: files are read, or reading fails. Those that wait for *)
(* the lock get it in turn. Nothing makes a client ask.                    *)
Step(c) == ~crashed /\ at[c] # "idle" /\ SendTrades(c)

FairSpec ==
  FlexSpec /\ \A c \in Client : /\ WF_flexVars(Step(c))
                                /\ SF_flexVars(~crashed /\ OpensLocked(c))

-----------------------------------------------------------------------------
Covers(r, versions) == \A f \in File : r[f] >= versions[f]

(* A request is answered with the files as they were when it came, or      *)
(* newer: though the checksum is computed without the lock, files change   *)
(* while they are read, and requests with different checksums wait for the *)
(* lock together. Only a request that finds the new checksum before the    *)
(* cache is set may get an old report.                                     *)
FreshReports ==
  \A c \in Client :
    at[c] \in {"answer", "loaded"} /\ ~between[c] => Covers(report[c], crc[c])

(* Every request is answered, unless the process ends.                     *)
EveryRequestEnds ==
  \A c \in Client : at[c] # "idle" ~> at[c] = "idle" \/ crashed

-----------------------------------------------------------------------------
(* Why FreshReports holds: the parts of the inductive invariant.           *)
Waits == {"idle", "error", "answer", "wait"} \cup InLoad

FlexTypeOK ==
  /\ dir \in Directory /\ directoryCrc \in Directory
  /\ reports \in Directory \cup {NoReport}
  /\ at \in [Client -> Waits]
  /\ crc \in [Client -> Directory] /\ report \in [Client -> Directory]
  /\ pending \in [Client -> SUBSET File]
  /\ between \in [Client -> BOOLEAN]

OneLoads == \A c, d \in Client : at[c] \in InLoad /\ at[d] \in InLoad => c = d

(* The cache is as new as the checksum beside it, but for the moment       *)
(* between the two assignments.                                            *)
CacheInv == reports # NoReport /\ ~Between => Covers(reports, directoryCrc)

(* A request that reads has all that its checksum tells of before it, or   *)
(* has read it.                                                            *)
ReadInv ==
  \A c \in Client :
    /\ at[c] \in {"wait", "read"} => Covers(dir, crc[c])
    /\ at[c] = "read" =>
         \A f \in File \ pending[c] : report[c][f] >= crc[c][f]
    /\ at[c] = "store" => directoryCrc = crc[c]
    /\ at[c] \in {"store", "loaded"} => Covers(report[c], crc[c])

FlexInv == FlexTypeOK /\ OneLoads /\ CacheInv /\ ReadInv /\ FreshReports
=============================================================================
