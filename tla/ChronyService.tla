---------------------------- MODULE ChronyService ----------------------------
(***************************************************************************)
(* PATCH /configure of the HTTP API: ChronyService::updateConfiguration    *)
(* reads the configuration file, edits its lines in memory, truncates the  *)
(* file and writes it again.  Opening may fail, a write may fail (nobody   *)
(* looks), and the process may be killed between any two of these steps.   *)
(* Crow runs handlers in one worker thread unless the program asks for     *)
(* more, so requests come one after the other.                             *)
(*                                                                         *)
(* Assumed of the clients: a value is one line.  The code does not check   *)
(* it; the text of a server with a line break in it would be written as    *)
(* several lines, of which later requests replace the first only.          *)
(***************************************************************************)
EXTENDS Integers, Sequences, FiniteSets, SequencesExt

CONSTANTS Value,          \* what a field may be set to: text without line breaks
          Text,           \* what lines of no field may say
          Files,          \* what may be in the file at the beginning
          MaxFields,      \* bound on the fields one request sets
          MaxRequests     \* bound on the requests

None == ""     \* std::nullopt

\* The fields of ChronyConfigDTO.
Field == {"server", "polling_interval", "minpoll", "maxpoll"}

\* A line is known by the field its text begins with; any other line is kept
\* as it is.
Line(key, val) == [key |-> key, val |-> val]
Blank == Line("other", "")
Lines == [key : Field \cup {"other"}, val : Value \cup Text]

ASSUME ChronyAssumption ==
    /\ None \notin Value /\ "" \in Text
    /\ \A lines \in Files : lines \in Seq(Lines)
    /\ MaxFields \in Nat /\ MaxRequests \in Nat

\* What a request may ask for: the fields that are there with the right type.
Asked(config) == {f \in Field : config[f] # None}

ChronyConfigDTO ==
    {c \in [Field -> Value \cup {None}] : Cardinality(Asked(c)) <= MaxFields}

VARIABLES
    pc,             \* where the worker is in the handler
    config,         \* the request it works on
    file,           \* the configuration file
    config_lines,   \* the edited lines, in memory
    answer,         \* the last response: 200, 400 or 500, 0 for none
    requests,       \* requests made
    \* what happened so far, for the properties
    original,       \* the file at the beginning
    before,         \* the file as the last request found it
    want,           \* each field by the last PATCH that was carried out
    damaged         \* a rewriting of the file was cut short

vars == <<pc, config, file, config_lines, answer, requests, original, before,
          want, damaged>>
history == <<original, want, damaged>>

Nothing == [f \in Field |-> None]

Init ==
    /\ pc = "idle" /\ config = Nothing /\ answer = 0 /\ requests = 0
    /\ file \in Files /\ config_lines = << >>
    /\ original = file /\ before = file
    /\ want = Nothing /\ damaged = FALSE

-------------------------------------------------------------------------------
(* The handler                                                             *)

Replaced_FirstOnly(lines, c) ==
    [k \in DOMAIN lines |->
        IF /\ lines[k].key \in Asked(c)
           /\ \A j \in 1 .. k - 1 : lines[j].key # lines[k].key
        THEN Line(lines[k].key, c[lines[k].key]) ELSE lines[k]]

\* Every line of a field that was asked for gets the new value.
Replaced(lines, c) ==
    [k \in DOMAIN lines |->
        IF lines[k].key \in Asked(c)
        THEN Line(lines[k].key, c[lines[k].key]) ELSE lines[k]]

AddedFor_Always(lines, c, f) ==
    IF f \in Asked(c) THEN <<Blank, Line(f, c[f])>> ELSE << >>

AddedFor_Never(lines, c, f) == << >>

\* A field that no line has is added, after an empty line.
AddedFor(lines, c, f) ==
    IF f \in Asked(c) /\ \A k \in DOMAIN lines : lines[k].key # f
    THEN <<Blank, Line(f, c[f])>> ELSE << >>

Added(lines, c) ==
    AddedFor(lines, c, "server") \o AddedFor(lines, c, "polling_interval")
        \o AddedFor(lines, c, "minpoll") \o AddedFor(lines, c, "maxpoll")

Edited(lines, c) == Replaced(lines, c) \o Added(lines, c)

\* A body that is no JSON object is answered at once.
BadRequest ==
    /\ pc = "idle"
    /\ requests < MaxRequests
    /\ requests' = requests + 1
    /\ answer' = 400
    /\ UNCHANGED <<pc, config, file, config_lines, before, history>>

Request(c) ==
    /\ pc = "idle"
    /\ requests < MaxRequests
    /\ requests' = requests + 1
    /\ config' = c
    /\ answer' = 0
    /\ pc' = "read"
    /\ UNCHANGED <<file, config_lines, before, history>>

Fail == answer' = 500 /\ pc' = "idle"

\* The file is read to its end and edited, or cannot be opened.
Read ==
    /\ pc = "read"
    /\ \/ /\ config_lines' = Edited(file, config)
          /\ before' = file
          /\ pc' = "truncate"
          /\ UNCHANGED answer
       \/ /\ Fail
          /\ UNCHANGED <<config_lines, before>>
    /\ UNCHANGED <<config, file, requests, history>>

Truncate_Append ==
    /\ pc = "truncate"
    /\ \/ pc' = "write" /\ UNCHANGED <<answer, file>>
       \/ Fail /\ UNCHANGED file
    /\ UNCHANGED <<config, config_lines, requests, before, history>>

\* std::ofstream with trunc: the old lines are gone when it opens.
Truncate ==
    /\ pc = "truncate"
    /\ \/ file' = << >> /\ pc' = "write" /\ UNCHANGED answer
       \/ Fail /\ UNCHANGED file
    /\ UNCHANGED <<config, config_lines, requests, before, history>>

\* One more line reaches the file, by a flush or by close; one that reaches
\* it in part counts as not written.
Write ==
    /\ pc = "write"
    /\ Len(file) < Len(config_lines)
    /\ file' = Append(file, config_lines[Len(file) + 1])
    /\ UNCHANGED <<pc, config, config_lines, answer, requests, before, history>>

\* A write fails: the stream takes nothing more, and goes on to close.
WriteFails ==
    /\ pc = "write"
    /\ Len(file) < Len(config_lines)
    /\ pc' = "failed"
    /\ damaged' = TRUE
    /\ UNCHANGED <<config, file, config_lines, answer, requests, original,
                   before, want>>

\* The fields as they are once this request is carried out.
Given == [f \in Field |-> IF f \in Asked(config) THEN config[f] ELSE want[f]]

\* close, return true, and the answer.
Close ==
    /\ \/ pc = "write" /\ Len(file) = Len(config_lines)
       \/ pc = "failed"
    /\ answer' = 200
    /\ pc' = "idle"
    /\ want' = Given
    /\ UNCHANGED <<config, file, config_lines, requests, original, before,
                   damaged>>

\* The process is killed and started again.
Crash ==
    /\ pc # "idle"
    /\ pc' = "idle"
    /\ answer' = 0
    /\ damaged' = (damaged \/ (pc = "write" /\ file # config_lines))
    /\ want' = IF pc = "write" /\ file = config_lines THEN Given ELSE want
    /\ UNCHANGED <<config, file, config_lines, requests, original, before>>

Next ==
    \/ BadRequest
    \/ \E c \in ChronyConfigDTO : Request(c)
    \/ Read \/ Truncate \/ Write \/ WriteFails \/ Close \/ Crash

Spec == Init /\ [][Next]_vars

-------------------------------------------------------------------------------
(* Properties                                                              *)

TypeOK ==
    /\ pc \in {"idle", "read", "truncate", "write", "failed"}
    /\ config \in [Field -> Value \cup {None}]
    /\ file \in Seq(Lines) /\ config_lines \in Seq(Lines)
    /\ answer \in {0, 200, 400, 500} /\ requests \in 0 .. MaxRequests
    /\ pc \in {"write", "failed"} => IsPrefix(file, config_lines)

\* Every line of from is where it was, with the same text if it is no
\* field's, and what comes after them is fields and empty lines.
KeepsOthers(lines, from) ==
    /\ Len(from) <= Len(lines)
    /\ \A k \in DOMAIN from :
          /\ lines[k].key = from[k].key
          /\ from[k].key = "other" => lines[k] = from[k]
    /\ \A k \in DOMAIN lines :
          k > Len(from) /\ lines[k].key = "other" => lines[k] = Blank

\* Each field of c is in the lines, with no other value beside it.
Holds(lines, c) ==
    \A f \in Asked(c) :
        /\ \E k \in DOMAIN lines : lines[k].key = f
        /\ \A k \in DOMAIN lines : lines[k].key = f => lines[k].val = c[f]

\* As long as no rewriting was cut short, the file says of every field what
\* the last PATCH of it that was carried out said, whatever was patched, refused or
\* interrupted in between, and keeps the other lines in their places.
PatchesAddUp ==
    pc \in {"idle", "read", "truncate"} /\ ~damaged =>
        /\ Holds(file, want)
        /\ KeepsOthers(file, original)

\* A client that repeats a PATCH, not knowing whether the first one was
\* carried out, changes nothing: fields are added only once, in any state
\* that refused, interrupted or cut-short requests have left the file in.
UpdateIsIdempotent ==
    pc = "read" =>
        LET once == Edited(file, config) IN Edited(once, config) = once

\* Damage does not last: whatever earlier crashes and failed writes have left
\* of the file, a PATCH whose lines are all written leaves a file that says
\* what was asked for, and keeps the other lines the request found.
CompletePatchHolds ==
    answer = 200 /\ file = config_lines =>
        Holds(file, config) /\ KeepsOthers(file, before)

\* "Returns true if it was successful": when the answer is 200 the file holds
\* what was asked for, and the other lines as the request found them.
SuccessMeansWritten ==
    answer = 200 => Holds(file, config) /\ KeepsOthers(file, before)
===============================================================================
