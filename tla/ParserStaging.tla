--------------------------- MODULE ParserStaging ---------------------------
(* The isolated parser's files (parsing.py:65-198).  An import writes the   *)
(* bytes it was given into the staging directory and runs a parser on the   *)
(* file in a process of its own, for a limited time; it removes the file    *)
(* whatever comes out.  A process that dies leaves its file, and each       *)
(* process that starts removes the files that are old enough to be no       *)
(* running parser's (service.py:92-93).                                     *)
EXTENDS Naturals, FiniteSets

CONSTANTS
    Processes,   \* workers, readers and host commands on one data directory
    Timeout,     \* parser_timeout_seconds
    Grace        \* the 60 seconds that a file is spared at least

VARIABLES
    process,   \* process[p]: "down", "idle", "staged", "parsing" or "returned"
    elapsed,   \* time that p's parser has run
    file,      \* file[p]: "none", "here" or "abandoned"; "swept" under a parser
    age,       \* age of p's file
    result     \* what came of p's last import

stagingVars == <<process, elapsed, file, age, result>>

Results == {"none", "segments", "parser_timeout", "document_parse_error"}
Max2(m, n) == IF m > n THEN m ELSE n

(* A slip a maintainer could make: once the parser's time is half over.     *)
CutoffHalf == Timeout \div 2

(* Older files are removed at the start of a process.                       *)
Cutoff == Max2(Grace, 2 * Timeout)

TypeOK ==
    /\ process \in [Processes -> {"down", "idle", "staged", "parsing", "returned"}]
    /\ elapsed \in [Processes -> 0 .. Timeout]
    /\ file \in [Processes -> {"none", "here", "abandoned", "swept"}]
    /\ age \in [Processes -> 0 .. Cutoff + 1]
    /\ result \in [Processes -> Results]

Init ==
    /\ process = [p \in Processes |-> "down"] /\ elapsed = [p \in Processes |-> 0]
    /\ file = [p \in Processes |-> "none"] /\ age = [p \in Processes |-> 0]
    /\ result = [p \in Processes |-> "none"]

Move(p, from, to) == process[p] = from /\ process' = [process EXCEPT ![p] = to]
End(p, r) == Move(p, "parsing", "returned") /\ result' = [result EXCEPT ![p] = r]

(* A process starts and sweeps the directory; a file it cannot remove or    *)
(* look at is left.                                                         *)
CleanupAbandoned(p) ==
    /\ Move(p, "down", "idle")
    /\ \E kept \in SUBSET {q \in Processes : file[q] \in {"here", "abandoned"} /\ age[q] > Cutoff} :
          file' = [q \in Processes |->
              IF age[q] <= Cutoff \/ q \in kept THEN file[q]
              ELSE IF file[q] = "here" THEN "swept"
              ELSE IF file[q] = "abandoned" THEN "none" ELSE file[q]]
    /\ UNCHANGED <<elapsed, age, result>>

(* The file is created under a new name.                                    *)
Stage(p) ==
    /\ file[p] \in {"none", "here"} /\ Move(p, "idle", "staged")
    /\ file' = [file EXCEPT ![p] = "here"] /\ age' = [age EXCEPT ![p] = 0]
    /\ UNCHANGED <<elapsed, result>>

Spawn(p) ==
    /\ Move(p, "staged", "parsing")
    /\ elapsed' = [elapsed EXCEPT ![p] = 0]
    /\ UNCHANGED <<file, age, result>>

(* The parser answers, with segments or a failure, in its time, or is       *)
(* killed when that is over.  One that finds no file fails.                 *)
Parsed(p) ==
    /\ \/ file[p] = "here" /\ End(p, "segments")
       \/ End(p, "document_parse_error")
    /\ UNCHANGED <<elapsed, file, age>>

TimeOut(p) ==
    /\ elapsed[p] = Timeout /\ End(p, "parser_timeout")
    /\ UNCHANGED <<elapsed, file, age>>

(* The import goes on when its file is removed; if the removal fails, the   *)
(* file is left for a sweep.                                                *)
Unlink(p) ==
    /\ Move(p, "returned", "idle")
    /\ \E left \in {"none", "abandoned"} :
          file' = [file EXCEPT ![p] = IF @ = "here" THEN left ELSE "none"]
    /\ UNCHANGED <<elapsed, age, result>>

Crash(p) ==
    /\ process[p] # "down"
    /\ process' = [process EXCEPT ![p] = "down"]
    /\ file' = [file EXCEPT ![p] = IF @ = "here" THEN "abandoned" ELSE "none"]
    /\ UNCHANGED <<elapsed, age, result>>

(* Time passes: no parser runs past its time, and a process needs no longer *)
(* than that to start its parser.                                           *)
Tick ==
    /\ \A p \in Processes : process[p] = "parsing" => elapsed[p] < Timeout
    /\ \A p \in Processes : process[p] = "staged" => age[p] < Timeout
    /\ elapsed' = [p \in Processes |-> IF process[p] = "parsing" THEN elapsed[p] + 1 ELSE elapsed[p]]
    /\ age' = [p \in Processes |-> IF file[p] # "none" /\ age[p] <= Cutoff THEN age[p] + 1 ELSE age[p]]
    /\ UNCHANGED <<process, file, result>>

Next ==
    \/ Tick
    \/ \E p \in Processes :
          CleanupAbandoned(p) \/ Stage(p) \/ Spawn(p) \/ Parsed(p) \/ TimeOut(p) \/ Unlink(p) \/ Crash(p)

Spec == Init /\ [][Next]_stagingVars

(* A sweep never takes the file a running parser reads: an import fails for *)
(* what is in its document or for its time, never for another process that  *)
(* started meanwhile (parsing.py:70-83 beside 107-152).                     *)
RunningParseKeepsItsFile == \A p \in Processes : process[p] \in {"staged", "parsing"} => file[p] = "here"
=============================================================================
