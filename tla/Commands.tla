------------------------------ MODULE Commands ------------------------------
(* One command of the command line, from its words to its exit code.  The words are checked
   before anything is opened and read again, one at a time, by what executes them; then the
   access layer answers, or a trace is followed while its run goes on.  Words are strings of
   which only the option names, flags and a few values matter; files are words as well. *)
EXTENDS Naturals, Sequences, FiniteSets

CONSTANTS CommandLines,   \* a command and its words
          MaxEvents       \* bound: events of the run a trace follows

ASSUME CommandsAssumption ==
    /\ \A words \in CommandLines : words \in Seq(STRING) /\ words # <<>>
    /\ MaxEvents \in Nat

VARIABLES line,           \* what was typed
          stage,          \* how far the command has come
          opened,         \* what is open: "host", "database", and the "application" of both
          request,        \* what is asked of the access layer
          followed,       \* the run a trace follows: [status, seq]
          seen,           \* [after, status, page]: what the trace has printed, read, and got last
          signal,         \* "aborted" once the terminal has interrupted the command
          printed,        \* envelopes on stdout
          exit            \* exit code, or "none"

commandVars == <<line, stage, opened, request, followed, seen, signal, printed, exit>>
-----------------------------------------------------------------------------
FlagWords == {"--detach", "--follow", "--events", "--once"}
GlobalOptions == {"--db", "--host", "--config", "--authority"}
Dashed == FlagWords \cup GlobalOptions \cup
          {"--limit", "--after", "--view", "--input", "--input-json", "--idempotency-key", "--format", "--mode",
           "--resolutions", "--reason", "--expected", "--worker-id", "--lease-ms", "--else"}
Command == line[1]
Words == Tail(line)

Takes(options, flags, least, most) ==
    [options |-> options \cup GlobalOptions, flags |-> flags, least |-> least, most |-> most]
Contract(command) ==
    CASE command = "search" -> Takes({"--limit", "--after"}, {}, 0, 1)
      [] command = "describe" -> Takes({"--view"}, {}, 1, 1)
      [] command = "run" -> Takes({"--input", "--input-json", "--idempotency-key"}, {"--detach"}, 1, 1)
      [] command = "trace" -> Takes({"--view", "--format", "--after", "--limit"}, {"--follow", "--events"}, 1, 1)
      [] command = "replay" -> Takes({"--mode"}, {}, 1, 1)
      [] command = "resume" -> Takes({"--resolutions"}, {}, 1, 1)
      [] command = "cancel" -> Takes({"--reason"}, {}, 1, 1)
      [] command = "nodes" -> Takes({"--limit"}, {}, 1, 2)
      [] command \in {"run-get", "validate"} -> Takes({}, {}, 1, 1)
      [] command = "draft" -> Takes({"--view", "--expected"}, {}, 2, 2)
      [] command = "diff" -> Takes({}, {}, 2, 2)
      [] command = "publish" -> Takes({"--expected"}, {}, 1, 1)
      [] command = "worker" -> Takes({"--worker-id", "--lease-ms"}, {"--once"}, 0, 0)
      [] OTHER -> Takes({}, {}, 1, 0)
DraftContract(kind) == CASE kind = "get" -> Takes({"--view"}, {}, 2, 2)
                         [] kind = "put" -> Takes({"--expected"}, {}, 2, 2)
                         [] OTHER -> Takes({}, {}, 1, 0)

\* assertArguments, word by word: known, not repeated, and followed by a value if it takes one.
CheckWord(contract, s, w) ==
    IF s.awaits THEN [s EXCEPT !.awaits = FALSE, !.ok = @ /\ w # "" /\ w \notin Dashed]
    ELSE IF w \notin Dashed THEN [s EXCEPT !.positionals = Append(@, w)]
    ELSE [s EXCEPT !.ok = @ /\ w \in contract.options \cup contract.flags /\ w \notin s.named,
                   !.named = @ \cup {w}, !.awaits = w \notin contract.flags]
Checked(contract, words) ==
    LET after[k \in 0 .. Len(words)] ==
          IF k = 0 THEN [ok |-> TRUE, awaits |-> FALSE, named |-> {}, positionals |-> <<>>]
          ELSE CheckWord(contract, after[k - 1], words[k])
    IN after[Len(words)]
Fits(contract, words) ==
    LET s == Checked(contract, words)
    IN s.ok /\ ~s.awaits /\ Len(s.positionals) \in contract.least .. contract.most
ValidArguments(command, words) ==
    LET first == Checked(Contract(command), words).positionals
    IN /\ Fits(Contract(command), words)
       /\ command = "nodes" => first[1] = "search"
       /\ command = "draft" => Fits(DraftContract(first[1]), words)
-----------------------------------------------------------------------------
(* How the words are read once they are valid, when no value is empty: an option is the word
   after its first occurrence; a positional is a word that is no option, no flag and no
   option's value. *)
Absent == ""
OptionOf(name) == LET at == {i \in 1 .. Len(Words) - 1 : Words[i] = name}
                  IN IF at = {} THEN Absent ELSE Words[1 + CHOOSE i \in at : \A j \in at : i <= j]
Supplied == {Words[i] : i \in DOMAIN Words}
ReadWordKeepingValue(s, w) == IF w \in Dashed THEN s ELSE [s EXCEPT !.found = Append(@, w)]
ReadWord(s, w) == IF s.skip THEN [s EXCEPT !.skip = FALSE]
                  ELSE IF w \in Dashed THEN [s EXCEPT !.skip = w \notin FlagWords]
                  ELSE [s EXCEPT !.found = Append(@, w)]
Positionals ==
    LET after[k \in 0 .. Len(Words)] == IF k = 0 THEN [skip |-> FALSE, found |-> <<>>]
                                        ELSE ReadWord(after[k - 1], Words[k])
    IN after[Len(Words)].found

\* What each command looks for.
ReadOptions ==
    CASE Command = "search" -> {"--limit", "--after"}
      [] Command = "describe" -> {"--view"}
      [] Command = "run" -> {"--input", "--input-json", "--idempotency-key"}
      [] Command = "trace" -> {"--view", "--format", "--after", "--limit"}
      [] Command = "replay" -> {"--mode"}
      [] Command = "resume" -> {"--resolutions"}
      [] Command = "cancel" -> {"--reason"}
      [] Command = "nodes" -> {"--limit"}
      [] Command = "draft" -> IF Positionals[1] = "get" THEN {"--view"} ELSE {"--expected"}
      [] Command = "publish" -> {"--expected"}
      [] Command = "worker" -> {"--worker-id", "--lease-ms"}
      [] OTHER -> {}
ReadFlags == CASE Command = "run" -> {"--detach"} [] Command = "trace" -> {"--follow", "--events"}
               [] Command = "worker" -> {"--once"} [] OTHER -> {}
ReadPositionals == CASE Command \in {"draft", "diff", "nodes"} -> 2 [] Command = "worker" -> 0 [] OTHER -> 1
Asked == [on |-> SubSeq(Positionals, 1, IF Len(Positionals) < ReadPositionals THEN Len(Positionals) ELSE ReadPositionals),
          with |-> [name \in {n \in ReadOptions : OptionOf(n) # Absent} |-> OptionOf(name)],
          flags |-> ReadFlags \cap Supplied]

Given(name, allowed) == OptionOf(name) \in allowed \cup {Absent}
IsInteger == {"0", "2"}
AfterOption == IF OptionOf("--after") = "2" THEN 2 ELSE 0
Following == Command = "trace" /\ "--follow" \in Supplied
\* What executes a command still refuses what its values make no sense of.
Sensible ==
    CASE Command \in {"search", "nodes"} -> Given("--limit", IsInteger)
      [] Command = "describe" -> Given("--view", {"summary", "schema", "template"})
      [] Command = "run" -> /\ Given("--input-json", {"{}"})
                            /\ OptionOf("--input") = Absent \/ OptionOf("--input-json") = Absent
      [] Command = "trace" -> /\ Given("--view", {"summary", "events"}) /\ Given("--limit", IsInteger) /\ Given("--after", IsInteger)
                              /\ IF Following THEN Given("--format", {"jsonl"}) ELSE Given("--format", {"json", "jsonl"})
      [] Command = "replay" -> Given("--mode", {"inspect", "recorded", "live"})
      [] Command = "draft" -> /\ Given("--expected", IsInteger)
                              /\ Positionals[1] = "get" => Given("--view", {"summary", "template"})
      [] Command = "publish" -> OptionOf("--expected") = "2"
      [] Command = "worker" -> "--once" \in Supplied /\ Given("--lease-ms", IsInteger)
      [] OTHER -> TRUE
\* A template that cannot be read is a bad request, inputs that cannot be read are an error of their own.
TemplateFile == CASE Command = "validate" -> Positionals[1] [] Command = "diff" -> Positionals[2]
                  [] Command = "draft" /\ Positionals[1] = "put" -> Positionals[2] [] OTHER -> "file"
InputFile == CASE Command = "run" -> OptionOf("--input") [] Command = "resume" -> OptionOf("--resolutions") [] OTHER -> "file"
-----------------------------------------------------------------------------
(* Errors are named by who throws them and normalised before they are printed. *)
BadRequest == <<"access", "REQUEST_INVALID">>
AnyError == <<"error", "other">>
Denied == <<"error", "permission">>    \* any message that speaks of authority or of permission
AccessErrors == {<<"access", "REVISION_REQUIRED">>, <<"access", "AUTHORITY_DENIED">>, <<"catalog", "NOT_FOUND">>,
            <<"catalog", "ID_MISMATCH">>, <<"execution", "NODE_OUTPUT_INVALID">>, <<"execution", "other">>, Denied, AnyError}
CatalogErrorCode(code) == CASE code = "PUBLISH_INVALID" -> "VALIDATION_FAILED"
                            [] code = "ID_MISMATCH" -> "REQUEST_INVALID" [] OTHER -> code
ExecutionErrorCode(code) == IF code = "NODE_OUTPUT_INVALID" THEN "OUTPUT_INVALID" ELSE "RUN_FAILED"
Normalized(error) == CASE error[1] = "access" -> error[2]
                       [] error[1] = "catalog" -> CatalogErrorCode(error[2])
                       [] error[1] = "execution" -> ExecutionErrorCode(error[2])
                       [] error = Denied -> "AUTHORITY_DENIED"
                       [] OTHER -> "INTERNAL_ERROR"
ExitCode(code) == CASE code \in {"REQUEST_INVALID", "REVISION_REQUIRED", "HOST_INVALID", "HOST_LOAD_FAILED"} -> 2
                    [] code \in {"VALIDATION_FAILED", "REVISION_CONFLICT", "NOT_FOUND"} -> 3
                    [] code = "AUTHORITY_DENIED" -> 4
                    [] code \in {"RUN_FAILED", "OUTPUT_INVALID"} -> 5
                    [] OTHER -> 6

ReportError(error) == /\ printed' = Append(printed, [says |-> "error", what |-> Normalized(error)])
                      /\ exit' = ExitCode(Normalized(error))
                      /\ stage' = "closing"
EndsBadly(status) == status \in {"failed", "cancelled"}
CodeOf(status) == IF EndsBadly(status) THEN 5 ELSE 0
-----------------------------------------------------------------------------
ValidateLine == /\ stage = "typed"
                /\ IF ValidArguments(Command, Words) THEN stage' = "valid" /\ UNCHANGED <<printed, exit>>
                   ELSE ReportError(BadRequest)
                /\ UNCHANGED <<line, opened, request, followed, seen, signal>>

\* The host module is named by an option or by the configuration.
HasHost == OptionOf("--host") # Absent \/ OptionOf("--config") = "conf"
ResolveOptions == /\ stage = "valid"
                  /\ IF Given("--config", {"conf"}) THEN stage' = "resolved" /\ UNCHANGED <<printed, exit>>
                     ELSE ReportError(BadRequest)
                  /\ UNCHANGED <<line, opened, request, followed, seen, signal>>

LoadHost == /\ stage = "resolved"
            /\ \/ /\ stage' = "loaded" /\ opened' = IF HasHost THEN {"host"} ELSE {}
                  /\ UNCHANGED <<printed, exit>>
               \/ /\ HasHost
                  /\ \E code \in {"HOST_LOAD_FAILED", "HOST_INVALID"} : ReportError(<<"access", code>>)
                  /\ UNCHANGED opened
            /\ UNCHANGED <<line, request, followed, seen, signal>>

\* Registering the nodes of the host, or opening a store, may fail half-way.
OpenApplication == /\ stage = "loaded"
                   /\ \/ /\ opened' = opened \cup {"database", "application"} /\ stage' = "open"
                         /\ UNCHANGED <<printed, exit>>
                      \/ /\ opened' \in {opened, opened \cup {"database"}}
                         /\ ReportError(AnyError)
                   /\ UNCHANGED <<line, request, followed, seen, signal>>

ExecuteCommand == /\ stage = "open"
                  /\ \/ /\ Sensible /\ TemplateFile # "nofile" /\ InputFile # "nofile"
                        /\ request' = Asked /\ stage' = IF Following THEN "polling" ELSE "asked"
                        /\ seen' = [seen EXCEPT !.after = AfterOption]
                        /\ UNCHANGED <<printed, exit>>
                     \/ /\ ~Sensible \/ TemplateFile = "nofile"
                        /\ ReportError(BadRequest) /\ UNCHANGED <<request, seen>>
                     \/ /\ Sensible /\ InputFile = "nofile"
                        /\ \E error \in {AnyError, Denied} : ReportError(error)
                        /\ UNCHANGED <<request, seen>>
                  /\ UNCHANGED <<line, opened, followed, signal>>

Replies == CASE Command = "run" /\ "--detach" \in request.flags -> {"accepted"}
             [] Command \in {"run", "replay", "resume", "cancel"} -> {"completed", "failed", "cancelled", "paused"}
             [] OTHER -> {"done"}
AccessAnswers == /\ stage = "asked" /\ stage' = "closing"
                 /\ \E status \in Replies : /\ printed' = Append(printed, [says |-> "answer", what |-> status])
                                            /\ exit' = CodeOf(status)
                 /\ UNCHANGED <<line, opened, request, followed, seen, signal>>
AccessThrows == /\ stage \in {"asked", "polling", "printing"}
                /\ \E error \in AccessErrors : ReportError(error)
                /\ UNCHANGED <<line, opened, request, followed, seen, signal>>

(* trace --follow: poll the run, print what is new of it, wait, until the run is not running. *)
FollowLimit == CASE OptionOf("--limit") = "2" -> 2 [] OptionOf("--limit") = "0" -> 1 [] OTHER -> MaxEvents
PollRun == /\ stage = "polling"
           /\ IF signal = "aborted" THEN ReportError(AnyError) /\ UNCHANGED seen
              ELSE /\ seen' = [seen EXCEPT !.status = followed.status] /\ stage' = "printing"
                   /\ UNCHANGED <<printed, exit>>
           /\ UNCHANGED <<line, opened, request, followed, signal>>
PrintEvents ==
    /\ stage = "printing"
    /\ LET news == {k \in 1 .. followed.seq : k > seen.after /\ k <= seen.after + FollowLimit}
       IN /\ printed' = printed \o [k \in 1 .. Cardinality(news) |-> [says |-> "event", what |-> seen.after + k]]
          /\ seen' = [seen EXCEPT !.after = @ + Cardinality(news), !.page = Cardinality(news)]
    /\ IF seen.status = "running" THEN stage' = "polling" /\ UNCHANGED exit
       ELSE stage' = "closing" /\ exit' = CodeOf(seen.status)
    /\ UNCHANGED <<line, opened, request, followed, signal>>
RunGoesOn == /\ stage \in {"polling", "printing"}
             /\ followed.status \in {"running", "paused"} /\ followed.seq < MaxEvents
             /\ \E status \in {"running", "paused", "completed", "failed"} :
                  followed' = [status |-> status, seq |-> followed.seq + 1]
             /\ UNCHANGED <<line, stage, opened, request, seen, signal, printed, exit>>
InterruptCommand == /\ stage \in {"polling", "printing"} /\ signal' = "aborted"
                    /\ UNCHANGED <<line, stage, opened, request, followed, seen, printed, exit>>

\* Whatever happened, what was created is closed; the host may fail at being disposed of.
CloseApplication == /\ stage = "closing" /\ stage' = "ended"
                    /\ IF "application" \in opened
                       THEN opened' = {} /\ exit' \in {exit} \cup {1 : h \in opened \cap {"host"}}
                       ELSE UNCHANGED <<opened, exit>>
                    /\ UNCHANGED <<line, request, followed, seen, signal, printed>>

NoRequest == [on |-> <<>>, with |-> [n \in {} |-> n], flags |-> {"none"}]
Typed(words) == /\ line = words /\ stage = "typed" /\ opened = {} /\ request = NoRequest /\ signal = "clear"
                /\ followed = [status |-> "running", seq |-> 1] /\ printed = <<>> /\ exit = "none"
                /\ seen = [after |-> 0, status |-> "none", page |-> 0]
NoCommand == Typed(<<"none">>)
CommandInit == \E words \in CommandLines : Typed(words)
CommandNext == \/ ValidateLine \/ ResolveOptions \/ LoadHost \/ OpenApplication \/ ExecuteCommand
               \/ AccessAnswers \/ AccessThrows \/ PollRun \/ PrintEvents \/ RunGoesOn \/ InterruptCommand
               \/ CloseApplication
CommandSpec == CommandInit /\ [][CommandNext]_commandVars
-----------------------------------------------------------------------------
(* What a command line means: dashed words are names, the word after an option its value,
   the others are positionals, in their order. *)
NamedAt == {i \in DOMAIN Words : Words[i] \in Dashed}
ValueAt == {i + 1 : i \in {j \in NamedAt : Words[j] \notin FlagWords}}
Others == DOMAIN Words \ (NamedAt \cup ValueAt)
OtherWords == [k \in 1 .. Cardinality(Others) |->
                 Words[CHOOSE i \in Others : Cardinality({j \in Others : j <= i}) = k]]
WellFormed ==
    LET c == IF Command = "draft" THEN DraftContract(OtherWords[1]) ELSE Contract(Command)
    IN /\ Cardinality(Others) \in c.least .. c.most
       /\ Command = "nodes" => OtherWords[1] = "search"
       /\ \A i \in NamedAt : Words[i] \in c.options \cup c.flags /\ \A j \in NamedAt : Words[i] = Words[j] => i = j
       /\ \A i \in ValueAt : i \in DOMAIN Words /\ Words[i] # "" /\ Words[i] \notin Dashed
Meant == LET options == {i \in NamedAt : Words[i] \notin FlagWords \cup GlobalOptions}
         IN [on |-> OtherWords,
             with |-> [name \in {Words[i] : i \in options} |-> Words[1 + CHOOSE i \in options : Words[i] = name]],
             flags |-> {Words[i] : i \in NamedAt} \cap FlagWords]

(* Nothing is opened for a line that is not well formed (README.md:241: refused before the
   database is opened); what is asked is what the line means, nothing supplied is ignored; a
   command ends with one envelope, or with the events it follows, each once and in order;
   its exit code never hides a failure, and what was created is closed (runWorkflowCli).  A trace that
   ends has printed all of the run, but for what is behind a last page that was full: the loop leaves
   when the run is not running and asks for no further page (run.ts:183-188).  Left out: a host that
   fails at being disposed of. *)
CommandsAreTakenAtTheirWord ==
    /\ opened # {} => WellFormed
    /\ request # NoRequest => request = Meant
    /\ LET answers == {k \in DOMAIN printed : printed[k].says # "event"}
           streamed == Following /\ answers = {}
           envelope == printed[Len(printed)]
       IN /\ \A k \in DOMAIN printed : IF k \in answers THEN k = Len(printed) ELSE printed[k].what = AfterOption + k
          /\ stage = "ended" =>
               /\ IF streamed THEN seen.after < followed.seq => seen.page >= FollowLimit ELSE answers # {}
               /\ exit = 0 => IF streamed THEN ~EndsBadly(seen.status)
                              ELSE envelope.says = "answer" /\ ~EndsBadly(envelope.what)
               /\ request # NoRequest => opened = {}
=============================================================================
