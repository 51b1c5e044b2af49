------------------------------- MODULE SqlText -------------------------------
(***************************************************************************)
(* What the database adapter does to the text of a statement: the `?` of       *)
(* SQLite becomes the $1, $2, ... of PostgreSQL, and the file of a migration   *)
(* is cut into statements.  Both scan for strings, quoted names and comments,  *)
(* each in its own way; here both are compared with what PostgreSQL reads.     *)
(* A text is a sequence of the characters the scans tell apart; "x" is any     *)
(* other.  A behaviour writes one text, character by character.               *)
(***************************************************************************)
EXTENDS Integers, Sequences

CONSTANTS MaxLength \* bound of a text

VARIABLE text
vars == <<text>>

Chars == {"'", "\"", "-", "\n", "/", "*", "$", "?", ";", "x"}
Init == text = <<>>
Write == Len(text) < MaxLength /\ \E ch \in Chars : text' = Append(text, ch)
Next == Write
Spec == Init /\ [][Next]_vars

-----------------------------------------------------------------------------
(* What PostgreSQL takes each character for: a state machine over the text,    *)
(* `mode` the construct the scan is in after i characters.                     *)
At(s, i) == IF i \in DOMAIN s THEN s[i] ELSE ""
Two(s, i, a, b) == At(s, i) = a /\ At(s, i + 1) = b
Opens(s, i) ==
  CASE At(s, i) = "'" -> "string" [] At(s, i) = "\"" -> "name"
    [] Two(s, i, "-", "-") -> "line" [] Two(s, i, "/", "*") -> "block"
    [] Two(s, i, "$", "$") -> "dollar" [] OTHER -> "code"
(* A construct of two characters takes the second as its own: "line2" is a    *)
(* line comment at its second dash, "blockend" the star that ends a block        *)
(* comment.  (PostgreSQL nests block comments; no statement of the code does.)    *)
ModeAfter(s) ==
  LET f[i \in 0..Len(s)] ==
        IF i = 0 THEN "code"
        ELSE LET was == f[i - 1] IN
             CASE was \in {"code", "end"} -> Opens(s, i)
               [] was \in {"line", "line2"} -> IF s[i] = "\n" THEN "end" ELSE "line2"
               [] was = "block" -> "block2"
               [] was \in {"block2", "block3"} -> IF Two(s, i, "*", "/") THEN "blockend" ELSE "block3"
               [] was = "dollar" -> "dollar2"
               [] was \in {"dollar2", "dollar3"} -> IF Two(s, i, "$", "$") THEN "dollarend" ELSE "dollar3"
               [] was \in {"blockend", "dollarend"} -> "end"
               [] was = "string" -> IF s[i] = "'" THEN "end" ELSE "string"
               [] was = "name" -> IF s[i] = "\"" THEN "end" ELSE "name"
  IN f
(* The positions PostgreSQL reads as code. *)
Code(s) == LET f == ModeAfter(s) IN {i \in 1..Len(s) : f[i] = "code"}

-----------------------------------------------------------------------------
(* indexOf, from position i on; 0 when the word is not there. *)
IndexOf(s, i, word) ==
  LET hits == {j \in i..(Len(s) - Len(word) + 1) : SubSeq(s, j, j + Len(word) - 1) = word} IN
  IF hits = {} THEN 0 ELSE CHOOSE j \in hits : \A k \in hits : j <= k
Or(n, end) == IF n = 0 THEN end ELSE n

(* toPostgresPlaceholders: where the scan that stands at i, outside of every   *)
(* construct, goes on; a string is passed with its doubled quotes.             *)
StringEnd(s, i) ==
  LET f[j \in 1..(Len(s) + 2)] ==
        IF j > Len(s) THEN Len(s) + 1
        ELSE IF Two(s, j, "'", "'") THEN f[j + 2]
        ELSE IF s[j] = "'" THEN j + 1 ELSE f[j + 1]
  IN f[i + 1]
AfterDash_Any(s, i) == s[i] = "-"
AfterDash(s, i) == Two(s, i, "-", "-")
Jump(s, i) ==
  CASE s[i] = "'" -> StringEnd(s, i)
    [] s[i] = "\"" -> Or(IndexOf(s, i + 1, <<"\"">>), Len(s)) + 1
    [] AfterDash(s, i) -> Or(IndexOf(s, i, <<"\n">>), Len(s) + 1)
    [] Two(s, i, "/", "*") -> Or(IndexOf(s, i + 2, <<"*", "/">>), Len(s)) + 2
    [] OTHER -> i + 1
toPostgresPlaceholders(s) == \* the positions of the `?` it numbers, in their order
  LET f[i \in 1..(Len(s) + 2)] ==
        IF i > Len(s) THEN {} ELSE (IF s[i] = "?" THEN {i} ELSE {}) \cup f[Jump(s, i)]
  IN f[1]

(* splitSqlStatements: the positions of the `;` it cuts at.  It looks for $$   *)
(* first, whatever it is in but a string or a line comment.                    *)
SplitJump(s, i, inDollar) ==
  CASE Two(s, i, "$", "$") -> i + 2
    [] ~inDollar /\ s[i] = "'" -> Or(IndexOf(s, i + 1, <<"'">>), Len(s)) + 1
    [] ~inDollar /\ Two(s, i, "-", "-") -> Or(IndexOf(s, i, <<"\n">>), Len(s) + 1)
    [] OTHER -> i + 1
Cuts_InBodies(ch, inDollar) == ch = ";"
Cuts(ch, inDollar) == ch = ";" /\ ~inDollar
splitSqlStatements(s) ==
  LET f[i \in 1..(Len(s) + 2), inDollar \in BOOLEAN] ==
        IF i > Len(s) THEN {}
        ELSE (IF Cuts(s[i], inDollar) THEN {i} ELSE {})
             \cup f[SplitJump(s, i, inDollar), IF Two(s, i, "$", "$") THEN ~inDollar ELSE inDollar]
  IN f[1, FALSE]

-----------------------------------------------------------------------------
TypeOK == text \in Seq(Chars) /\ Len(text) <= MaxLength

(* The constructs each scan does not know: bodies in $$ for the statements of  *)
(* the code, which have none; names and block comments for the migrations.     *)
Uses(s, modes) == LET f == ModeAfter(s) IN \E i \in 1..Len(s) : f[i] \in modes

(* The placeholders are the question marks PostgreSQL reads as code: not one    *)
(* of a string, a name or a comment, and none of them missed.                  *)
PlaceholdersAgree ==
  ~Uses(text, {"dollar"}) =>
    toPostgresPlaceholders(text) = {i \in Code(text) : text[i] = "?"}

(* A migration is cut at the ends of its statements, never inside a string, a   *)
(* comment or the body of a function.                                          *)
CutsAgree ==
  ~Uses(text, {"name", "block"}) =>
    splitSqlStatements(text) = {i \in Code(text) : text[i] = ";"}
=============================================================================
