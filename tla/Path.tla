-------------------------------- MODULE Path --------------------------------
(***************************************************************************)
(* The paths of requests: util_abs_path() makes them on the client,        *)
(* parse_path() and the head of validate_path() take them apart on the     *)
(* server.  Characters that are treated alike are one: "/", ".", "\\", NL  *)
(* (before the password), CTL (other control characters), TOP ('~' and     *)
(* above) and any other.                                                   *)
(*                                                                         *)
(* A loop is a function from the number of rounds made to where they lead. *)
(***************************************************************************)
EXTENDS Integers, Sequences, SequencesExt

NL == "nl"
CTL == "ctl"
TOP == "top"
NUL == "nul"

(* The character at t, the terminating zero behind the last. *)
At(path, t) == IF t \in 1..Len(path) THEN path[t] ELSE NUL
Head0(path, n) == SubSeq(path, 1, n)
Tail0(path, n) == SubSeq(path, n, Len(path))

(* The first of chars from t on, or the end; the last up to t, or 0. *)
NextOf(path, t, chars) ==
    CHOOSE n \in t..Len(path) + 1 : /\ n = Len(path) + 1 \/ path[n] \in chars
                                    /\ \A i \in t..n - 1 : path[i] \notin chars
LastOf(path, t, chars) ==
    CHOOSE n \in 0..t : /\ n = 0 \/ path[n] \in chars
                        /\ \A i \in n + 1..t : path[i] \notin chars
-----------------------------------------------------------------------------
(* util_abs_path() *)

(* util_junk_password() *)
Junked(path) == Head0(path, NextOf(path, 1, {NL}) - 1)

(* One slash at t. *)
Squeezed(path, t) ==
    LET next == CHOOSE n \in t + 1..Len(path) + 1 : At(path, n) # "/" /\ \A i \in t + 1..n - 1 : path[i] = "/"
    IN  Head0(path, t) \o Tail0(path, next)

(* Faulty variant: names have one character. *)
Back_Once(path, t) == t

(* The slash at t or before it, or the first character. *)
Back(path, t) == IF LastOf(path, t, {"/"}) = 0 THEN 1 ELSE LastOf(path, t, {"/"})

(* The loop over the path, at t; when it has ended, the path it leaves,    *)
(* and whether the password is to be appended.                             *)
Running(path, t) == [path |-> path, t |-> t, ended |-> FALSE, appends |-> FALSE]
Over(path, t, appends) == [path |-> path, t |-> t, ended |-> TRUE, appends |-> appends]

(* The rest of a round, when there is no slash behind one at t. *)
Turn(path, t) ==
    LET Dot(n) == At(path, t + n) = "."
        Ends(n) == At(path, t + n) \in {"/", NUL}
        b == Back(path, t - 2)
    IN  IF At(path, t) = NUL THEN Over(path, t, TRUE)
        ELSE IF At(path, t) = "/" /\ t # 1 /\ At(path, t + 1) = NUL THEN Over(Head0(path, t - 1), t, FALSE)
        ELSE IF Dot(0) /\ Dot(1) /\ t = 2 /\ At(path, t + 2) = NUL THEN Over(Head0(path, t - 1), t, TRUE)
        ELSE IF Dot(0) /\ Dot(1) /\ t = 2 /\ At(path, t + 2) = "/"
             THEN Running(Head0(path, t - 1) \o Tail0(path, t + 3), t)
        ELSE IF Dot(0) /\ Dot(1) /\ At(path, t - 1) = "/" /\ Ends(2)
             THEN IF b # 1 \/ At(path, t + 2) = "/" THEN Running(Head0(path, b - 1) \o Tail0(path, t + 2), b)
                  ELSE Over(Head0(path, b), t, TRUE)
        ELSE IF Dot(0) /\ t = 2 /\ At(path, t + 1) = NUL THEN Over(Head0(path, t - 1), t, TRUE)
        ELSE IF Dot(0) /\ t = 2 /\ At(path, t + 1) = "/"
             THEN Running(Head0(path, t - 1) \o Tail0(path, t + 2), t)
        ELSE IF Dot(0) /\ At(path, t - 1) = "/" /\ Ends(1)
             THEN Running(Head0(path, t - 2) \o Tail0(path, t + 1), t - 1)
        ELSE Running(path, t + 1)

Round(r) ==
    IF r.ended THEN r
    ELSE Turn(IF At(r.path, r.t) = "/" THEN Squeezed(r.path, r.t) ELSE r.path, r.t)

(* The loop: every round ends it or leaves less of the path before it. *)
Simplified(path) ==
    LET rounds[n \in 0..Len(path) + 1] ==
            IF n = 0 THEN Running(path, 1) ELSE Round(rounds[n - 1])
    IN  rounds[Len(path) + 1]

(* util_abs_path(s2) with env_dir and env_passwd (<<>>: none) *)
Merged(env_dir, s2) == IF At(s2, 1) = "/" THEN <<"/">> \o s2 ELSE <<"/">> \o env_dir \o <<"/">> \o s2
AbsPath(env_dir, s2, env_passwd) ==
    LET merged == Merged(env_dir, s2)
        result == Simplified(IF env_passwd = <<>> THEN merged ELSE Junked(merged))
    IN  result.path \o IF result.appends /\ env_passwd # <<>> THEN <<NL>> \o env_passwd ELSE <<>>
-----------------------------------------------------------------------------
(* parse_path() *)

(* The path between its leading slashes and the password, as a PPATH: what *)
(* fullp, d_ptr .. d_ptr + d_len and f_ptr .. f_ptr + f_len show.          *)
Refused == [refused |-> TRUE]
Ppath(text, full, d_len, f, passwd) ==
    LET Shown(s) == IF s = <<>> THEN <<".">> ELSE s
        name == Tail0(text, full)
    IN  [refused |-> FALSE, fullp |-> Shown(name), dir |-> Shown(Head0(name, d_len)),
         d_len |-> IF d_len = 0 THEN 1 ELSE d_len,
         f_len |-> IF f > Len(text) THEN 1 ELSE Len(text) - f + 1,
         file |-> Shown(Tail0(text, f)), passwd |-> passwd]

(* Faulty variant: only the first component is looked at. *)
Hidden_First(c, state) == c \in {".", "\\"} /\ state = 0

(* No file may begin with '.' or '\\'. *)
Hidden(c, state) == c \in {".", "\\"} /\ state \in {0, 2}

(* A round of the loop, at s: in leading slashes (state 0), in a component *)
(* (1), behind a slash (2); full, f: the first characters of fullp and     *)
(* f_ptr.                                                                  *)
Scan(q, c, s) ==
    IF q.refused \/ c \in {CTL, TOP} \/ Hidden(c, q.state) THEN [q EXCEPT !.refused = TRUE]
    ELSE IF c # "/" THEN [q EXCEPT !.state = 1]
    ELSE IF q.state = 0 THEN [q EXCEPT !.full = s + 1, !.d_len = 0, !.f = s + 1]
    ELSE IF q.state = 1 THEN [q EXCEPT !.state = 2, !.d_len = s - q.full, !.f = s + 1]
    ELSE [q EXCEPT !.f = s + 1]

(* The loop over the first n characters of text. *)
Scanned(text, n) ==
    LET scan[s \in 0..Len(text)] ==
            IF s = 0 THEN [state |-> 0, full |-> 1, d_len |-> 0, f |-> 1, refused |-> FALSE]
            ELSE Scan(scan[s - 1], text[s], s)
    IN  scan[n]

(* What follows the last newline; the loop ends at the first. *)
Password(str) == IF LastOf(str, Len(str), {NL}) = 0 THEN <<>> ELSE Tail0(str, LastOf(str, Len(str), {NL}) + 1)

ParsePath(str) ==
    LET text == Junked(str)
        q == Scanned(text, Len(text))
    IN  IF q.refused THEN Refused ELSE Ppath(text, q.full, q.d_len, q.f, Password(str))

(* validate_path(want_directory): "everything in path is a directory". *)
Work(pp) == LET n == pp.d_len + pp.f_len + 1
            IN  Head0(pp.fullp, IF n < Len(pp.fullp) THEN n ELSE Len(pp.fullp))
-----------------------------------------------------------------------------
(* Reference: the names a path leads through, when those of follow mean    *)
(* what "." and ".." mean.                                                 *)
Dots == {<<".">>, <<".", ".">>}
Enter(dirs, name, follow) ==
    IF name = <<>> \/ (name = <<".">> /\ name \in follow) THEN dirs
    ELSE IF name = <<".", ".">> /\ name \in follow THEN SubSeq(dirs, 1, Len(dirs) - 1)
    ELSE Append(dirs, name)

(* The names behind the path's first n characters, and the one begun. *)
Pass(w, c, follow) ==
    IF c = "/" THEN [dirs |-> Enter(w.dirs, w.name, follow), name |-> <<>>]
    ELSE [w EXCEPT !.name = Append(@, c)]
Walk(path, n, follow) ==
    LET walk[i \in 0..Len(path)] ==
            IF i = 0 THEN [dirs |-> <<>>, name |-> <<>>] ELSE Pass(walk[i - 1], path[i], follow)
    IN  walk[n]

Dirs(path, follow) == LET w == Walk(path, Len(path), follow) IN Enter(w.dirs, w.name, follow)
Components(path) == Dirs(path, {})
Resolved(path) == Dirs(path, Dots)
=============================================================================
