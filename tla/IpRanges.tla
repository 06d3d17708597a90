------------------------------ MODULE IpRanges ------------------------------
(***************************************************************************)
(* The address ranges of the content networks                              *)
(* (backend/internal/ip_ranges.js): fetched at start-up and by a timer     *)
(* from three services in turn, written to a file that nginx includes, and *)
(* applied by a reload.                                                    *)
(*                                                                         *)
(* A list of ranges is the fetch it comes from and the services that       *)
(* answered with ranges: the status of an answer is not looked at, so an   *)
(* error page counts as a list with nothing in it.                         *)
(***************************************************************************)
EXTENDS Naturals, Sequences

CONSTANT MaxFetches     \* bound: the fetches started in a run

ASSUME FetchAssumption == MaxFetches \in Nat

VARIABLES
    interval_processing,
    iteration_count,
    fetch,          \* the step of the fetch in flight, and what it has collected
    fetches,        \* the number of fetches started
    rangesFile,     \* ip_ranges.conf
    rangesServed,   \* the ranges nginx has loaded
    writes_since_boot, \* history: the files this process has written
    excuse          \* history: why nginx was not told of the file, if it was not

rangesVars == <<interval_processing, iteration_count, fetch, fetches, rangesFile,
                rangesServed, writes_since_boot, excuse>>

Services == <<"cloudfront", "cloudflare-v4", "cloudflare-v6">>
Service  == {Services[i] : i \in DOMAIN Services}

(* A fetch is at the service it asks, to write the file, or to reload.     *)
ToWrite == Len(Services) + 1
ToReload == Len(Services) + 2
NoFetch == [at |-> 0, from |-> {}]

RangesList == [of: 0..MaxFetches, from: SUBSET Service]

RangesTypeOK ==
    /\ interval_processing \in BOOLEAN
    /\ iteration_count \in 0..MaxFetches
    /\ fetch \in [at: 0..ToReload, from: SUBSET Service]
    /\ fetches \in 0..MaxFetches
    /\ rangesFile \in RangesList
    /\ rangesServed \in RangesList
    /\ writes_since_boot \in 0..MaxFetches
    /\ excuse \in {"none", "first", "refused", "unwritten", "crash"}

EmptyFile == [of |-> 0, from |-> {}]

(* The image ships an empty file, and nginx starts beside the backend.     *)
RangesInit ==
    /\ interval_processing = FALSE
    /\ iteration_count = 0
    /\ fetch = NoFetch
    /\ fetches = 0
    /\ rangesFile = EmptyFile
    /\ rangesServed = rangesFile
    /\ writes_since_boot = 0
    /\ excuse = "none"

(* fetch(), from appStart() or the timer: nothing if one is in flight.     *)
FetchRanges ==
    /\ ~interval_processing
    /\ fetches < MaxFetches
    /\ interval_processing' = TRUE
    /\ fetches' = fetches + 1
    /\ fetch' = [at |-> 1, from |-> {}]
    /\ UNCHANGED <<iteration_count, rangesFile, rangesServed, writes_since_boot,
                   excuse>>

(* The service that is asked answers, with ranges or without.              *)
ServiceAnswers ==
    /\ fetch.at \in DOMAIN Services
    /\ \E got \in {{}, {Services[fetch.at]}} :
          fetch' = [at |-> fetch.at + 1, from |-> fetch.from \cup got]
    /\ UNCHANGED <<interval_processing, iteration_count, fetches, rangesFile,
                   rangesServed, writes_since_boot, excuse>>

EndFetch ==
    /\ fetch' = NoFetch
    /\ interval_processing' = FALSE

(* A service cannot be reached or answers with no JSON, or the template    *)
(* cannot be read or rendered.                                             *)
FetchFails ==
    /\ fetch.at \in 1..ToWrite
    /\ EndFetch
    /\ UNCHANGED <<iteration_count, fetches, rangesFile, rangesServed,
                   writes_since_boot, excuse>>

(* The file cannot be written: it was emptied before that, or never opened.*)
WriteRangesFails ==
    /\ fetch.at = ToWrite
    /\ EndFetch
    /\ \/ rangesFile' = EmptyFile /\ excuse' = "unwritten"
       \/ UNCHANGED <<rangesFile, excuse>>
    /\ UNCHANGED <<iteration_count, fetches, rangesServed, writes_since_boot>>

(* Bug: the count stays at 0, and no fetch is ever followed by a reload.   *)
GenerateUncounted ==
    /\ fetch.at = ToWrite
    /\ rangesFile' = [of |-> fetches, from |-> fetch.from]
    /\ writes_since_boot' = writes_since_boot + 1
    /\ excuse' = IF writes_since_boot = 0 THEN "first" ELSE "none"
    /\ EndFetch
    /\ UNCHANGED <<iteration_count, fetches, rangesServed>>

(* generateConfig, and the end of the first successful fetch, which does   *)
(* not reload.                                                             *)
GenerateRanges ==
    /\ fetch.at = ToWrite
    /\ rangesFile' = [of |-> fetches, from |-> fetch.from]
    /\ writes_since_boot' = writes_since_boot + 1
    /\ excuse' = IF writes_since_boot = 0 THEN "first" ELSE "none"
    /\ IF iteration_count = 0
       THEN EndFetch /\ iteration_count' = 1
       ELSE fetch' = [fetch EXCEPT !.at = ToReload]
            /\ UNCHANGED <<iteration_count, interval_processing>>
    /\ UNCHANGED <<fetches, rangesServed>>

(* reload(): nginx -t reads the file with every host's, any of which may   *)
(* be refused; then nginx is signalled.                                    *)
ReloadRanges ==
    /\ fetch.at = ToReload
    /\ EndFetch
    /\ \/ /\ rangesServed' = rangesFile
          /\ iteration_count' = iteration_count + 1
          /\ UNCHANGED excuse
       \/ /\ excuse' = "refused"
          /\ UNCHANGED <<rangesServed, iteration_count>>
    /\ UNCHANGED <<fetches, rangesFile, writes_since_boot>>

(* A request about a host reloads nginx.                                   *)
OtherReload ==
    /\ rangesServed' = rangesFile
    /\ UNCHANGED <<interval_processing, iteration_count, fetch, fetches, rangesFile,
                   writes_since_boot, excuse>>

(* The backend ends and is started again, and nginx goes on.               *)
BackendRestarts ==
    /\ interval_processing' = FALSE
    /\ iteration_count' = 0
    /\ fetch' = NoFetch
    /\ writes_since_boot' = 0
    /\ excuse' = IF fetch.at = ToReload THEN "crash" ELSE excuse
    /\ UNCHANGED <<fetches, rangesFile, rangesServed>>

RangesNext ==
    \/ FetchRanges \/ ServiceAnswers \/ FetchFails \/ WriteRangesFails
    \/ GenerateRanges \/ ReloadRanges
    \/ OtherReload \/ BackendRestarts

RangesSpec == RangesInit /\ [][RangesNext]_rangesVars

-----------------------------------------------------------------------------
(* Between fetches nginx has the ranges of the file, unless the file is    *)
(* the first one this process wrote, nginx was not reloaded because some   *)
(* file was refused, a failed write emptied the file, or the backend ended *)
(* between the write and the reload.  So a service that fails, at any      *)
(* point of any number of fetches, never leaves nginx with older ranges    *)
(* than the file.                                                          *)
RangesApplied ==
    ~interval_processing /\ excuse = "none" => rangesServed = rangesFile
=============================================================================
