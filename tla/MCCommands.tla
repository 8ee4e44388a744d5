----------------------------- MODULE MCCommands -----------------------------
(***************************************************************************)
(* Lines to be typed: every line of up to three words of a small           *)
(* vocabulary for the commands whose contracts differ most, and for every  *)
(* command its positionals with an option or a flag before and after them, *)
(* each with values it takes and values it does not.                       *)
(***************************************************************************)
EXTENDS Commands

FewWords(command) ==
    {"", "2", "--db", "--else"} \cup
    CASE command = "search" -> {"a", "--limit"}
      [] command = "run" -> {"a", "--input", "--detach"}
      [] command = "draft" -> {"get", "put", "--expected"}
      [] command = "trace" -> {"a", "--after", "--follow"}
Short == {<<c>> \o ws : c \in {"search", "run", "draft", "trace"}, ws \in UNION {[1 .. n -> {"", "2", "a", "get", "put", "--db",
            "--else", "--limit", "--input", "--detach", "--expected", "--after", "--follow"}] : n \in 0 .. 1}}
    \cup UNION {{<<c>> \o ws : ws \in UNION {[1 .. n -> FewWords(c)] : n \in 2 .. 3}} : c \in {"search", "run", "draft", "trace"}}

Bases(command) ==
    CASE command = "search" -> {<<>>, <<"a">>}
      [] command = "draft" -> {<<"get", "a">>, <<"put", "file">>, <<"put", "nofile">>, <<"list", "a">>}
      [] command = "diff" -> {<<"a", "file">>, <<"a", "nofile">>, <<"a">>}
      [] command = "nodes" -> {<<"search">>, <<"search", "a">>, <<"list">>}
      [] command = "validate" -> {<<"file">>, <<"nofile">>}
      [] command = "worker" -> {<<>>, <<"--once">>}
      [] command = "trace" -> {<<"a">>, <<"--follow", "a">>}
      [] OTHER -> {<<"a">>}
Groups(command) ==
    {<<>>, <<"--db", "2">>, <<"--config", "conf">>, <<"--config", "nofile">>, <<"--host", "a">>} \cup
    CASE command \in {"search", "nodes"} -> {<<"--limit", "2">>, <<"--limit", "x">>, <<"--after", "a">>}
      [] command = "describe" -> {<<"--view", "schema">>, <<"--view", "events">>}
      [] command = "run" -> {<<"--input", "file">>, <<"--input", "nofile">>, <<"--input-json", "{}">>,
                             <<"--input-json", "x">>, <<"--detach">>, <<"--idempotency-key", "a">>}
      [] command = "trace" -> {<<"--after", "2">>, <<"--after", "x">>, <<"--limit", "0">>, <<"--limit", "2">>, <<"--format", "json">>,
                               <<"--format", "jsonl">>, <<"--view", "events">>, <<"--view", "schema">>, <<"--events">>}
      [] command = "replay" -> {<<"--mode", "recorded">>, <<"--mode", "x">>}
      [] command = "resume" -> {<<"--resolutions", "file">>, <<"--resolutions", "nofile">>}
      [] command = "cancel" -> {<<"--reason", "a">>}
      [] command = "draft" -> {<<"--view", "template">>, <<"--view", "schema">>, <<"--expected", "2">>, <<"--expected", "x">>}
      [] command = "publish" -> {<<"--expected", "2">>, <<"--expected", "0">>}
      [] command = "worker" -> {<<"--lease-ms", "2">>, <<"--lease-ms", "x">>, <<"--worker-id", "a">>}
      [] OTHER -> {}
Whole == UNION {{<<c>> \o before \o base \o after : before \in Groups(c), base \in Bases(c), after \in Groups(c)} :
                c \in {"search", "describe", "run", "run-get", "trace", "replay", "resume", "cancel", "nodes", "validate",
                       "draft", "diff", "publish", "worker", "status"}}
MCCommandLines == Short \cup Whole
=============================================================================
