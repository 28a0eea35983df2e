------------------------------- MODULE MediaSync -------------------------------
(* The maintenance command that moves pictures linked from elsewhere into the  *)
(* public bucket: it downloads the source (or takes the bytes from a local     *)
(* cache), puts them under their key and only then writes the key to the row.  *)
(* Sources answer badly, calls fail, the command is stopped and run again.     *)
EXTENDS Naturals, FiniteSets, Functions

CONSTANTS N,            \* rows, numbered by their age
          Picture,      \* the picture the source of a row serves when it is well
          CacheFile,    \* the file its bytes are cached in
          Concurrency,  \* rows worked on at a time
          MaxRetries,   \* attempts at a download
          Limits,       \* what --limit may be; 0 when it is not given
          BadAnswers,   \* what a source may serve instead of its picture
          Faults        \* may anything go wrong?

Media == 1 .. N

SizeAssumption == N \in Nat \ {0} /\ Concurrency \in 1 .. 4 /\ MaxRetries \in Nat \ {0}
PictureAssumption == DOMAIN Picture = Media /\ DOMAIN CacheFile = Media
AnswersAssumption == BadAnswers \subseteq {"page", "empty", "busy", "no answer", "gone"}
LimitsAssumption == Limits \subseteq Nat /\ Faults \in BOOLEAN

VARIABLES key,      \* the storage key of each row
          source,   \* what the source of each row serves
          cache,
          objects,
          job,
          work,     \* what the job does for each row
          clean     \* has nothing gone wrong since the job began?

vars == <<key, source, cache, objects, job, work, clean>>

NoKey == "no key"
None == "nothing"
Pictures == Range(Picture)
NotPictures == {"page", "empty"}
Busy == {"busy", "no answer"}     \* 429, 408 and 5xx; a network error or the deadline of 15 s
Answers == Pictures \cup BadAnswers
CacheFiles == Range(CacheFile)

Off == [on |-> FALSE, apply |-> FALSE, force |-> FALSE, rows |-> 0, from |-> 0, ended |-> "-"]
Pending == [step |-> "pending", attempt |-> 0, bytes |-> None]
Over == {"done", "failed"}
Steps == {"pending", "download", "validate", "head", "put", "update"} \cup Over

Smaller(a, b) == IF a < b THEN a ELSE b
Selected == 1 .. job.rows
Chunk == {m \in Selected : job.from < m /\ m <= job.from + Concurrency}
Failed == {m \in Selected : work[m].step = "failed"}

TakenAsGiven(limit) == Smaller(limit, N)

\* Rows are taken by age, migrated or not.
Taken(limit) == IF limit = 0 THEN N ELSE Smaller(limit, N)

Start(apply, force, limit) ==
  /\ ~job.on
  /\ job' = [on |-> TRUE, apply |-> apply, force |-> force, rows |-> Taken(limit), from |-> 0,
             ended |-> "-"]
  /\ work' = [m \in Media |-> Pending]
  /\ clean' = \A m \in Media : source[m] = Picture[m]
  /\ UNCHANGED <<key, source, cache, objects>>

-----------------------------------------------------------------------------
(* One row *)

At(m, step) == job.on /\ m \in Chunk /\ work[m].step = step
To(m, step) == work' = [work EXCEPT ![m].step = step]
Fails(m) == To(m, "failed") /\ clean' = FALSE

Begin(m) ==
  /\ At(m, "pending")
  /\ To(m, IF key[m] # NoKey /\ ~job.force THEN "done" ELSE "download")
  /\ UNCHANGED <<key, source, cache, objects, job, clean>>

Cached(m) == cache[CacheFile[m]] \notin {None, "empty"}

FromCache(m) ==
  /\ At(m, "download") /\ work[m].attempt = 0
  /\ Cached(m)
  /\ work' = [work EXCEPT ![m].bytes = cache[CacheFile[m]], ![m].step = "validate"]
  /\ UNCHANGED <<key, source, cache, objects, job, clean>>

LastAttemptNever(attempt) == FALSE
LastAttempt(attempt) == attempt + 1 = MaxRetries

\* A source that is busy or silent is tried again; one that is gone is not.
Download(m) ==
  /\ At(m, "download")
  /\ work[m].attempt > 0 \/ ~Cached(m)
  /\ \/ /\ source[m] \in Pictures \cup NotPictures
        /\ work' = [work EXCEPT ![m].bytes = source[m], ![m].step = "validate"]
        /\ cache' = [cache EXCEPT ![CacheFile[m]] = source[m]]
     \/ /\ source[m] \in Busy /\ ~LastAttempt(work[m].attempt)
        /\ work' = [work EXCEPT ![m].attempt = Smaller(@ + 1, MaxRetries)]
        /\ UNCHANGED cache
     \/ /\ source[m] = "gone" \/ (source[m] \in Busy /\ LastAttempt(work[m].attempt))
        /\ To(m, "failed")
        /\ UNCHANGED cache
  /\ UNCHANGED <<key, source, objects, job, clean>>

AnyBytes(bytes) == TRUE
IsPicture(bytes) == bytes \in Pictures

Validate(m) ==
  /\ At(m, "validate")
  /\ To(m, IF IsPicture(work[m].bytes) THEN "head" ELSE "failed")
  /\ UNCHANGED <<key, source, cache, objects, job, clean>>

KeyOf(m) == work[m].bytes

AfterHeadOfAnyRun(apply, exists) == IF exists THEN "update" ELSE "put"
AfterHead(apply, exists) == IF ~apply THEN "done" ELSE IF exists THEN "update" ELSE "put"

HeadObject(m) ==
  /\ At(m, "head")
  /\ To(m, AfterHead(job.apply, KeyOf(m) \in objects))
  /\ UNCHANGED <<key, source, cache, objects, job, clean>>

GoesOn(m) == To(m, "update") /\ clean' = FALSE
AfterFailedCall(m) == Fails(m)

HeadFails(m) ==
  /\ At(m, "head") /\ Faults
  /\ AfterFailedCall(m)
  /\ UNCHANGED <<key, source, cache, objects, job>>

PutObject(m) ==
  /\ At(m, "put")
  /\ objects' = objects \cup {KeyOf(m)}
  /\ To(m, "update")
  /\ UNCHANGED <<key, source, cache, job, clean>>

PutFails(m) ==
  /\ At(m, "put") /\ Faults
  /\ objects' \in {objects, objects \cup {KeyOf(m)}}
  /\ AfterFailedCall(m)
  /\ UNCHANGED <<key, source, cache, job>>

Update(m) ==
  /\ At(m, "update")
  /\ key' = [key EXCEPT ![m] = KeyOf(m)]
  /\ To(m, "done")
  /\ UNCHANGED <<source, cache, objects, job, clean>>

\* Without effect, or the answer is lost.
UpdateFails(m) ==
  /\ At(m, "update") /\ Faults
  /\ key' \in {key, [key EXCEPT ![m] = KeyOf(m)]}
  /\ Fails(m)
  /\ UNCHANGED <<source, cache, objects, job>>

-----------------------------------------------------------------------------
(* The job *)

ExitOk(failed) == "ok"
Exit(failed) == IF job.apply /\ failed # {} THEN "error" ELSE "ok"

NextChunk ==
  /\ job.on
  /\ \A m \in Chunk : work[m].step \in Over
  /\ job' = IF job.from + Concurrency < job.rows
            THEN [job EXCEPT !.from = @ + Concurrency]
            ELSE [job EXCEPT !.on = FALSE, !.ended = Exit(Failed)]
  /\ UNCHANGED <<key, source, cache, objects, work, clean>>

Stopped ==
  /\ job.on /\ Faults
  /\ job' = [job EXCEPT !.on = FALSE, !.ended = "stopped"]
  /\ UNCHANGED <<key, source, cache, objects, work, clean>>

\* The source of a row begins to fail, or recovers.
SourceChanges(m, answer) ==
  /\ Faults /\ source[m] # answer
  /\ source' = [source EXCEPT ![m] = answer]
  /\ clean' = FALSE
  /\ UNCHANGED <<key, cache, objects, job, work>>

Init ==
  /\ key = [m \in Media |-> NoKey] /\ objects = {}
  /\ source = Picture
  /\ cache = [c \in CacheFiles |-> None]
  /\ job = Off
  /\ work = [m \in Media |-> Pending]
  /\ clean = TRUE

Row(m) ==
  \/ Begin(m) \/ FromCache(m) \/ Download(m) \/ Validate(m)
  \/ HeadObject(m) \/ PutObject(m) \/ Update(m)

Next ==
  \/ \E apply, force \in BOOLEAN, limit \in Limits : Start(apply, force, limit)
  \/ \E m \in Media : Row(m) \/ HeadFails(m) \/ PutFails(m) \/ UpdateFails(m)
  \/ NextChunk \/ Stopped
  \/ \E m \in Media : \E answer \in {Picture[m]} \cup BadAnswers : SourceChanges(m, answer)

Spec == Init /\ [][Next]_vars

\* What a running job does by itself.
Running == (\E m \in Media : Row(m) \/ HeadFails(m) \/ PutFails(m) \/ UpdateFails(m)) \/ NextChunk

-----------------------------------------------------------------------------

TypeOK ==
  /\ key \in [Media -> Pictures \cup {NoKey}]
  /\ source \in [Media -> Answers]
  /\ cache \in [CacheFiles -> Pictures \cup NotPictures \cup {None}]
  /\ objects \subseteq Pictures
  /\ \A m \in Media : work[m].step \in Steps /\ work[m].attempt \in 0 .. MaxRetries

\* The upload completes before the row is written: whatever fails and wherever the command
\* is stopped, a row with a key has its object.
KeyHasItsObject == \A m \in Media : key[m] # NoKey => key[m] \in objects

\* Rows of one source share a cached file; none gets the picture of another source.
KeyIsOfItsSource == \A m \in Media : key[m] \in {NoKey, Picture[m]}

\* A run with --apply and without --limit that exits without an error has moved every row.
SuccessIsComplete ==
  job.ended = "ok" /\ job.apply /\ job.rows = N => \A m \in Media : key[m] # NoKey

\* A dry run, forced or not, changes neither rows nor bucket.
DryRunChangesNothing == job.on /\ ~job.apply => UNCHANGED <<key, objects>>

\* The job comes to an end although sources keep failing.
JobEnds == job.on ~> ~job.on

\* docs/OBJECT_STORAGE.md: the command "supports local cache/resume": once sources and bucket
\* are well, running it again moves what failed before.
RerunMovesWhatFailed == clean /\ ~job.on => Failed = {}

\* What the command is run for, and docs/OBJECT_STORAGE.md documents it with --limit too:
\* if it is run again and again, every row has its picture in the bucket some day.
EveryRowIsMoved == \A m \in Media : key[m] # NoKey
=============================================================================
