----------------------------- MODULE LinkNames -----------------------------
(***************************************************************************)
(* The names of links, and the two ways in which internal/main.go brings   *)
(* them to one spelling: the hooks do it to the first column of the sheet, *)
(* normalizeRedirectPath to the path or the host of a request.             *)
(*                                                                         *)
(* A name is a stem in some spelling: letters of either case, an info      *)
(* suffix "+" before it, slashes and info suffixes after it.  Slashes in   *)
(* front are trimmed by both ways alike and have no place here.            *)
(***************************************************************************)
EXTENDS Integers

CONSTANT Stems      \* what is left of a name without case, "/" and "+"

Name == [stem   : Stems,
         upper  : BOOLEAN,                      \* has upper case letters
         before : {"", "+"},
         after  : {"", "/", "+", "/+", "+/"}]

Plain(stem) == [stem |-> stem, upper |-> FALSE, before |-> "", after |-> ""]

\* strings.Trim(s, "/")
TrimSlashes(n) ==
    [n EXCEPT !.after = CASE @ = "/"  -> ""
                          [] @ = "+/" -> "+"
                          [] OTHER    -> @]

HasInfoSuffix(n) == n.after \in {"+", "/+"}

\* strings.TrimRight(s, "+")
TrimRightInfo(n) ==
    [n EXCEPT !.after = CASE @ = "+"  -> ""
                          [] @ = "/+" -> "/"
                          [] OTHER    -> @]

\* strings.Trim(s, "+")
TrimInfo(n) == [TrimRightInfo(n) EXCEPT !.before = ""]

ToLower(n) == [n EXCEPT !.upper = FALSE]

Lowered(n, ignoreCaseInPath) == IF ignoreCaseInPath THEN ToLower(n) ELSE n

\* Mutant: the case of the path is kept.
normalizeRedirectPathKeepCase(path, ignoreCaseInPath) ==
    LET trimmed == TrimSlashes(path) IN
    [name |-> IF HasInfoSuffix(trimmed) THEN TrimInfo(trimmed) ELSE trimmed,
     info |-> HasInfoSuffix(trimmed)]

\* The name that is looked up for a path, and whether the path asks for the
\* info page.  The suffix is trimmed whether or not there is an info page.
normalizeRedirectPath(path, ignoreCaseInPath) ==
    LET trimmed == Lowered(TrimSlashes(path), ignoreCaseInPath) IN
    [name |-> IF HasInfoSuffix(trimmed) THEN TrimInfo(trimmed) ELSE trimmed,
     info |-> HasInfoSuffix(trimmed)]
=============================================================================
