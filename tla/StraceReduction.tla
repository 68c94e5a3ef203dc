--------------------------- MODULE StraceReduction ---------------------------
(***************************************************************************)
(* The reduction of the raw strace files of a build to the observed trace. *)
(* The source holds it three times, written independently: the builder     *)
(* (src/builders/python-v3/entrypoint.py) produces the trace, the handoff  *)
(* (builder_handoff_v3.py) recounts it, and the verifier                   *)
(* (build_verification_v3.py) recounts it again from the manifest's files. *)
(*                                                                         *)
(* A line is a record of what the three regular expressions and the        *)
(* argument scans tell apart: its kind, the call or signal or exit status, *)
(* the first quoted value, and the flags.  `utf8' is FALSE of a line that  *)
(* does not decode.  A raw directory is a function from the file names to  *)
(* sequences of lines.  Sorting by key is left out: a list of events       *)
(* sorted by distinct keys is the function from those keys to the counts.  *)
(***************************************************************************)
EXTENDS Naturals, FiniteSets, Sequences

CONSTANTS
    TraceNames,    \* names matching strace.[0-9]+
    OtherNames,    \* the other names matching the glob strace.*
    Unquoted       \* the value of a call without a quoted argument

FileOperations ==
    [openat |-> "access", mkdir |-> "create", unlink |-> "delete",
     rename |-> "rename"]

Executions == {"execve", "execveat"}
Opens == {"open", "openat", "openat2"}
NetworkOperations == {"connect", "bind"}

OutcomeOf(line) == IF line.failed THEN "failed" ELSE "success"

(* One syscall line's events, as the handoff and the verifier derive them. *)
DerivedTraceEvents(line) ==
    LET quoted == line.quoted # Unquoted
        operation == IF line.name \in Opens /\ line.writes
                     THEN "write" ELSE FileOperations[line.name]
    IN  {<<"process", IF quoted THEN line.quoted ELSE "unknown",
           OutcomeOf(line)>> : name \in Executions \cap {line.name}}
        \cup {<<"file", operation, line.quoted, OutcomeOf(line)>> :
                name \in IF quoted THEN DOMAIN FileOperations \cap {line.name}
                                   ELSE {}}
        \cup {<<"network", line.name, line.host, line.port, OutcomeOf(line)>> :
                name \in IF line.unix THEN {}
                         ELSE NetworkOperations \cap {line.name}}

(* Mutant: an execution without a quoted path is not counted.              *)
ProcessEventQuotedOnly(line) ==
    IF line.name \notin Executions \/ line.quoted = Unquoted THEN {}
    ELSE {<<"process", line.quoted, OutcomeOf(line)>>}

(* The builder asks three functions in turn; each yields one event or none. *)
ProcessEvent(line) ==
    IF line.name \notin Executions THEN {}
    ELSE {<<"process",
            IF line.quoted = Unquoted THEN "unknown" ELSE line.quoted,
            OutcomeOf(line)>>}

ObservedFileEvent(line) ==
    IF line.name \notin DOMAIN FileOperations \/ line.quoted = Unquoted THEN {}
    ELSE IF line.name \in Opens /\ line.writes
    THEN {<<"file", "write", line.quoted, OutcomeOf(line)>>}
    ELSE {<<"file", FileOperations[line.name], line.quoted, OutcomeOf(line)>>}

NetworkEvent(line) ==
    IF line.name \notin NetworkOperations \/ line.unix THEN {}
    ELSE {<<"network", line.name, line.host, line.port, OutcomeOf(line)>>}

(* The keys one line adds one to, given the events its syscall stands for. *)
KeysOf(line, events) ==
    CASE line.kind = "syscall" ->
             {<<"syscall", line.name, OutcomeOf(line)>>} \cup events
      [] line.kind = "signal" -> {<<"signal", line.name>>}
      [] line.kind = "exit" -> {<<"process-exit", line.name>>}
      [] OTHER -> {}

LinesOf(raw) == UNION {{<<name, i>> : i \in 1..Len(raw[name])} : name \in DOMAIN raw}
LineAt(raw, at) == raw[at[1]][at[2]]

CountKind(raw, kind) ==
    Cardinality({at \in LinesOf(raw) : LineAt(raw, at).kind = kind})

CountEvents(raw, derived) ==
    LET keysAt == [at \in LinesOf(raw) |-> KeysOf(LineAt(raw, at), derived[at])]
    IN  [key \in UNION {keysAt[at] : at \in LinesOf(raw)} |->
            Cardinality({at \in LinesOf(raw) : key \in keysAt[at]})]

DerivedEvents(raw) ==
    CountEvents(raw, [at \in LinesOf(raw) |-> DerivedTraceEvents(LineAt(raw, at))])

Decodes(raw) == \A at \in LinesOf(raw) : LineAt(raw, at).utf8

(* A line that cannot be decoded reaches the builder with replacement      *)
(* characters: what the expressions see in it is unchanged.                *)
ParseStraceDirectory(raw) ==
    LET parsed == CountKind(raw, "syscall") + CountKind(raw, "signal")
                      + CountKind(raw, "exit")
        unparsed == CountKind(raw, "other")
    IN  [covered |-> DOMAIN raw # {} /\ parsed > 0 /\ unparsed = 0,
         files |-> Cardinality(DOMAIN raw),
         parsed |-> parsed,
         syscall |-> CountKind(raw, "syscall"),
         signal |-> CountKind(raw, "signal"),
         exit |-> CountKind(raw, "exit"),
         unparsed |-> unparsed,
         events |-> CountEvents(raw, [at \in LinesOf(raw) |->
             LET line == LineAt(raw, at)
             IN  ProcessEvent(line) \cup ObservedFileEvent(line) \cup NetworkEvent(line)])]

EventsTotal(trace, kind) ==
    LET keys == {key \in DOMAIN trace.events : key[1] = kind}
        Below(key) == {<<key, i>> : i \in 1..trace.events[key]}
    IN  Cardinality(UNION {Below(key) : key \in keys})

(* The document alone: complete coverage, positive counts, and the events  *)
(* of each counted kind adding up to its line count.                       *)
ValidTrace(trace) ==
    /\ trace.covered
    /\ trace.parsed > 0 /\ trace.files > 0 /\ trace.syscall > 0
    /\ trace.unparsed = 0
    /\ \A key \in DOMAIN trace.events : trace.events[key] > 0
    /\ EventsTotal(trace, "syscall") = trace.syscall
    /\ EventsTotal(trace, "signal") = trace.signal
    /\ EventsTotal(trace, "process-exit") = trace.exit

(* The document against the directory, at the handoff.                     *)
ValidRawTraceFiles(raw, trace) ==
    /\ DOMAIN raw # {} /\ Cardinality(DOMAIN raw) = trace.files
    /\ DOMAIN raw \subseteq TraceNames
    /\ Decodes(raw)
    /\ CountKind(raw, "syscall") = trace.syscall
    /\ CountKind(raw, "signal") = trace.signal
    /\ CountKind(raw, "exit") = trace.exit
    /\ CountKind(raw, "other") = trace.unparsed
    /\ Cardinality(LinesOf(raw)) - CountKind(raw, "other") = trace.parsed
    /\ DerivedEvents(raw) = trace.events

(* The verifier refuses what the handoff merely counts.                    *)
RawTraceRefused(raw) ==
    \/ DOMAIN raw = {} \/ ~(DOMAIN raw \subseteq TraceNames)
    \/ ~Decodes(raw)
    \/ CountKind(raw, "other") > 0
    \/ CountKind(raw, "syscall") = 0

VerifyRawTraceRecords(raw) ==
    [files |-> Cardinality(DOMAIN raw),
     parsed |-> Cardinality(LinesOf(raw)),
     syscall |-> CountKind(raw, "syscall"),
     signal |-> CountKind(raw, "signal"),
     exit |-> CountKind(raw, "exit"),
     events |-> DerivedEvents(raw)]

ValidCompleteTrace(trace, counts) ==
    /\ trace.covered /\ trace.files > 0 /\ trace.parsed > 0 /\ trace.syscall > 0
    /\ trace.unparsed = 0
    /\ \A field \in DOMAIN counts : trace[field] = counts[field]

---------------------------------------------------------------------------
Kinds == {"syscall", "signal", "exit", "other"}

(* What a collector may leave: finitely many files of whole lines, under   *)
(* names that match the glob.                                              *)
RawDirectory(raw) ==
    /\ IsFiniteSet(DOMAIN raw) /\ DOMAIN raw \subseteq TraceNames \cup OtherNames
    /\ \A name \in DOMAIN raw :
          /\ Len(raw[name]) \in Nat /\ DOMAIN raw[name] = 1..Len(raw[name])
          /\ \A i \in DOMAIN raw[name] : raw[name][i].kind \in Kinds

(* The three reductions of a raw trace agree: the handoff accepts what the *)
(* builder reduced exactly when the parse was complete over well-named     *)
(* files that decode, and then the verifier's own reduction confirms it.   *)
ReductionsAgree(raw) ==
    LET trace == ParseStraceDirectory(raw)
        accepted == ValidTrace(trace) /\ ValidRawTraceFiles(raw, trace)
    IN  /\ accepted <=> /\ trace.covered /\ trace.syscall > 0
                        /\ Decodes(raw) /\ DOMAIN raw \subseteq TraceNames
        /\ accepted <=> /\ ~RawTraceRefused(raw)
                        /\ ValidCompleteTrace(trace, VerifyRawTraceRecords(raw))
==============================================================================
