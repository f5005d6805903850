-------------------------------- MODULE Text ----------------------------------
(***************************************************************************)
(* The functions that take text apart and put it together: CString         *)
(* (WildCmp, Escape_n, Token, Split), the registry file of a module        *)
(* (MCString), and the lines of the IRC protocol (CMessage).               *)
(*                                                                         *)
(* Text is a sequence of atoms: characters, and runs of characters that    *)
(* the functions treat as a whole (an entity such as "lt;", two hex        *)
(* digits).  A behaviour picks a function and types its arguments, atom by *)
(* atom; the properties hold of whatever has been typed so far.            *)
(***************************************************************************)
EXTENDS Naturals, FiniteSetsExt, SequencesExt

CONSTANTS MaxWild, MaxString, MaxLine, MaxValue   \* bounds: lengths of arguments

VARIABLES fn, a, b    \* the function, and two arguments
vars == <<fn, a, b>>

At(s, i) == IF i \in DOMAIN s THEN s[i] ELSE "NUL"
From(s, i) == SubSeq(s, i, Len(s))
FirstOf(s, c) == Min({i \in DOMAIN s : s[i] = c} \cup {Len(s) + 1})
Before(s, c) == SubSeq(s, 1, FirstOf(s, c) - 1)
After(s, c) == From(s, FirstOf(s, c) + 1)
-----------------------------------------------------------------------------
(* CString::WildCmp *)

AsLower(s) == [i \in DOMAIN s |-> IF s[i] = "A" THEN "a" ELSE s[i]]
Fits(w, i, s, j) == At(w, i) \in {At(s, j), "?"}

\* Mutant: after a mismatch the string is not rewound.
RetryAnew(j, cp) == <<j + 1, cp + 1>>
\* Where the string goes on after a mismatch, and where after the next one.
Retry(j, cp) == <<cp, cp + 1>>

\* The second loop, at a * or the end of s: mp and cp are where to go on after a mismatch.
Search(w, s, n) ==
  LET F[i, j, mp, cp \in Nat] ==
        IF j > Len(s) THEN \A k \in i..Len(w) : w[k] = "*"
        ELSE IF At(w, i) = "*" THEN i = Len(w) \/ F[i + 1, j, i + 1, j + 1]
        ELSE IF Fits(w, i, s, j) THEN F[i + 1, j + 1, mp, cp]
        ELSE F[mp, Retry(j, cp)[1], mp, Retry(j, cp)[2]]
  IN  F[n, n, 0, 0]

WildCmp(wild, string) ==
  LET w == AsLower(wild)
      s == AsLower(string)
      n == Min({i \in 1..Len(s) : At(w, i) = "*"} \cup {Len(s) + 1})   \* the first loop ends
  IN  (\A i \in 1..n - 1 : Fits(w, i, s, i)) /\ Search(w, s, n)

\* What a mask means.
Matches(w, s) ==
  LET M[i, j \in Nat] ==
        IF i > Len(w) THEN j > Len(s)
        ELSE IF w[i] = "*" THEN \E k \in j..Len(s) + 1 : M[i + 1, k]
        ELSE j <= Len(s) /\ w[i] \in {s[j], "?"} /\ M[i + 1, j + 1]
  IN  M[1, 1]
-----------------------------------------------------------------------------
(* CString::Escape_n.  The code of each character that has one. *)

Backslash(codes) == [c \in DOMAIN codes |-> <<"\\", codes[c]>>]
Codes ==
  [MSGTAG   |-> Backslash([c \in {";", " ", "NUL", "\\", "CR", "LF"} |->
                  CASE c = ";" -> ":" [] c = " " -> "s" [] c = "NUL" -> "0" [] c = "\\" -> "\\"
                    [] c = "CR" -> "r" [] c = "LF" -> "n"]),
   SQL      |-> Backslash([c \in {"NUL", "LF", "TAB", "CR", "BS", "\"", "'", "\\"} |->
                  CASE c = "NUL" -> "0" [] c = "LF" -> "n" [] c = "TAB" -> "t" [] c = "CR" -> "r"
                    [] c = "BS" -> "b" [] OTHER -> c]),
   NAMEDFMT |-> Backslash([c \in {"\\", "{", "}"} |-> c]),
   DEBUG    |-> [c \in {"LF", "\\"} |-> IF c = "\\" THEN <<"\\", ".">> ELSE <<"\\", "x", "0A">>],
   HTML     |-> [c \in {"<", ">", "\"", "&"} |->
                  <<"&", CASE c = "<" -> "lt;" [] c = ">" -> "gt;" [] c = "\"" -> "quot;"
                           [] c = "&" -> "amp;">>],
   URL      |-> [c \in {" ", "%", "+", "LF"} |->
                  CASE c = " " -> <<"+">> [] c = "%" -> <<"%", "25">> [] c = "+" -> <<"%", "2B">>
                    [] c = "LF" -> <<"%", "0A">>]]
Encodings == DOMAIN Codes

\* Characters with a code, and the ones that codes are made of.
Atoms(e) == DOMAIN Codes[e] \cup UNION {ToSet(Codes[e][c]) : c \in DOMAIN Codes[e]}

\* Mutant: the character that begins the codes is not escaped.
EscapeLess(e, s) == FlattenSeq([i \in DOMAIN s |->
  IF s[i] \in DOMAIN Codes[e] \ {"\\", "&", "%"} THEN Codes[e][s[i]] ELSE <<s[i]>>])
Escape(e, s) == FlattenSeq([i \in DOMAIN s |->
  IF s[i] \in DOMAIN Codes[e] THEN Codes[e][s[i]] ELSE <<s[i]>>])

\* A backslash takes the next character with it, whatever that is, at the end the NUL.
Greedy == {"MSGTAG", "SQL", "NAMEDFMT"}
Unescape(e, s) ==
  LET F[i \in Nat] ==
        LET known == {c \in DOMAIN Codes[e] : IsPrefix(Codes[e][c], From(s, i))}
            c == CHOOSE k \in known : TRUE
        IN  IF i > Len(s) THEN <<>>
            ELSE IF known # {} THEN <<c>> \o F[i + Len(Codes[e][c])]
            ELSE IF e \in Greedy /\ s[i] = "\\" THEN <<At(s, i + 1)>> \o F[i + 2]
            ELSE <<s[i]>> \o F[i + 1]
  IN  F[1]
-----------------------------------------------------------------------------
(* CString::Split and Token, with a separator of one character *)

\* One turn of Split's loop over the character c: what has been split, the token
\* under way, and whether p is within quotes.  Quotes are cut.
SplitStep(x, c, allowEmpty, quotes) ==
  IF quotes /\ c = "\"" THEN [x EXCEPT !.inside = ~@, !.skip = FALSE]
  ELSE IF c = " " /\ x.skip THEN x
  ELSE IF c = " " /\ ~x.inside
  THEN [x EXCEPT !.done = Append(@, x.token), !.token = <<>>, !.skip = ~allowEmpty]
  ELSE [x EXCEPT !.token = Append(@, c), !.skip = FALSE]
Split(s, allowEmpty, quotes) ==
  LET x == FoldLeft(LAMBDA y, c : SplitStep(y, c, allowEmpty, quotes),
                    [done |-> <<>>, token |-> <<>>, inside |-> FALSE, skip |-> ~allowEmpty], s)
  IN  IF x.token = <<>> THEN x.done ELSE Append(x.done, x.token)

\* Mutant: only one separator is skipped.
SkippedOne(s, i) == IF At(s, i) = " " THEN i + 1 ELSE i
\* Where the first thing other than a separator is, from i on.
Skipped(s, i) == Min({k \in i..Len(s) : s[k] # " "} \cup {Len(s) + 1})
\* The start of a token.
Start(s, token, allowEmpty) ==
  LET F[i, pos \in Nat] ==
        IF pos = 0 \/ i > Len(s) THEN i
        ELSE IF s[i] # " " THEN F[i + 1, pos]
        ELSE F[IF allowEmpty THEN i + 1 ELSE Skipped(s, i), pos - 1]
  IN  F[IF allowEmpty THEN 1 ELSE Skipped(s, 1), token]
Token(s, pos, rest, allowEmpty) ==
  LET t == From(s, Start(s, pos, allowEmpty))
  IN  IF rest THEN t ELSE Before(t, " ")
-----------------------------------------------------------------------------
(* MCString: a line of the file per entry *)

FileCodes == [c \in {" ", "%", ";", "LF"} |->
  <<"%", CASE c = " " -> "20" [] c = "%" -> "25" [] c = ";" -> "3b" [] c = "LF" -> "0a", ";">>]
Encode(s) == FlattenSeq([i \in DOMAIN s |->
  IF s[i] \in DOMAIN FileCodes THEN FileCodes[s[i]] ELSE <<s[i]>>])
Decode(s) ==
  LET F[i \in Nat] ==
        LET known == {c \in DOMAIN FileCodes : IsPrefix(FileCodes[c], From(s, i))}
        IN  IF i > Len(s) THEN <<>>
            ELSE IF known = {} THEN <<s[i]>> \o F[i + 1]
            ELSE <<CHOOSE c \in known : TRUE>> \o F[i + 3]
  IN  F[1]

\* An entry without a key is not written.
WriteToDisk(key, value) == IF key = <<>> THEN <<>> ELSE Encode(key) \o <<" ">> \o Encode(value)
Trim(s) == LET k == {i \in DOMAIN s : s[i] # " "}
           IN  IF k = {} THEN <<>> ELSE SubSeq(s, Min(k), Max(k))
ReadFromDisk(line) == LET s == Trim(line)
                      IN  <<Decode(Token(s, 0, FALSE, FALSE)), Decode(Token(s, 1, FALSE, FALSE))>>
-----------------------------------------------------------------------------
(* CMessage *)

\* next_word: the word, and what follows the spaces after it.
NextWord(s) == Before(s, " ")
Rest(s) == From(s, Skipped(s, FirstOf(s, " ")))

Pieces(s) ==
  LET F[i \in Nat] == LET t == From(s, i)
                          k == FirstOf(t, ";")
                      IN  <<Before(t, ";")>> \o IF k > Len(t) THEN <<>> ELSE F[i + k]
  IN  F[1]
\* Of a key that comes twice the last one counts.
ParseTags(s) ==
  LET p == Pieces(s)
      Key(i) == Before(p[i], "=")
      Final(k) == Max({i \in DOMAIN p : Key(i) = k})
  IN  [k \in {Key(i) : i \in DOMAIN p} |-> Unescape("MSGTAG", After(p[Final(k)], "="))]

\* CNick::Parse and GetHostMask: what follows the ! and has no @ is a host.
NickMask(s) ==
  LET t == IF At(s, 1) = ":" THEN Tail(s) ELSE s
  IN  [nick |-> Before(t, "!"),
       ident |-> IF "@" \in ToSet(After(t, "!")) THEN Before(After(t, "!"), "@") ELSE <<>>,
       host |-> IF "@" \in ToSet(After(t, "!")) THEN After(After(t, "!"), "@") ELSE After(t, "!")]
GetHostMask(n) == n.nick \o (IF n.ident = <<>> THEN <<>> ELSE <<"!">> \o n.ident)
                         \o (IF n.host = <<>> THEN <<>> ELSE <<"@">> \o n.host)

\* The last parameter may be a trailing one.
ParseParams(s) ==
  LET F[i \in Nat] == LET t == From(s, i)
                      IN  IF t = <<>> THEN <<>>
                          ELSE IF t[1] = ":" THEN <<Tail(t)>>
                          ELSE <<NextWord(t)>> \o F[Len(s) + 1 - Len(Rest(t))]
  IN  F[1]
IsColon(s) == At(s, 1) = ":" \/ \E i \in DOMAIN s : s[i] = ":" /\ At(s, i - 1) = " "
Parse(s) ==
  LET tagged == At(s, 1) = "@"
      t == IF tagged THEN Rest(s) ELSE s
      prefixed == At(t, 1) = ":"
      u == IF prefixed THEN Rest(t) ELSE t
  IN  [tags |-> IF tagged THEN ParseTags(Tail(NextWord(s))) ELSE [k \in {} |-> <<>>],
       nick |-> NickMask(IF prefixed THEN Tail(NextWord(t)) ELSE <<>>),
       command |-> NextWord(u), params |-> ParseParams(Rest(u)),
       colon |-> IsColon(Rest(u))]      \* m_bColon

\* Mutant: only a parameter with a space in it gets a colon.
NeedsColonRarely(p) == " " \in ToSet(p)
NeedsColon(p) == p = <<>> \/ p[1] = ":" \/ " " \in ToSet(p)
GetParamsColon(ps, colon) == [i \in DOMAIN ps |->
  IF i = Len(ps) /\ (colon \/ NeedsColon(ps[i])) THEN <<":">> \o ps[i] ELSE ps[i]]
Join(ss, sep) == FoldLeft(LAMBDA x, s : IF x = <<>> THEN s ELSE x \o <<sep>> \o s, <<>>, ss)
ToLine(m) ==
  LET Tag(k) == IF m.tags[k] = <<>> THEN k ELSE k \o <<"=">> \o Escape("MSGTAG", m.tags[k])
      keys == SetToSortSeq(DOMAIN m.tags, LAMBDA k, l : Len(k) < Len(l))   \* the empty one first
      tags == IF keys = <<>> THEN <<>> ELSE <<"@">> \o Join([i \in DOMAIN keys |-> Tag(keys[i])], ";")
      mask == GetHostMask(m.nick)
      head == <<tags, IF mask = <<>> THEN <<>> ELSE <<":">> \o mask, m.command>>
      params == GetParamsColon(m.params, m.colon)
      line == Join(head, " ")
  IN  IF m.params = <<>> THEN line
      ELSE (IF line = <<>> THEN <<>> ELSE line \o <<" ">>) \o
           FlattenSeq([i \in DOMAIN params |-> IF i = 1 THEN params[i] ELSE <<" ">> \o params[i]])
-----------------------------------------------------------------------------
Subjects == {"WildCmp", "Split", "QuoteSplit", "Registry", "Message"} \cup Encodings
\* How a line may begin: b, with a after it.
LineStarts == {<<>>, <<"@", "x", "=", "\\", "s", ";">>, <<":", "x", "!", "x", "@">>}
Init == /\ fn \in Subjects /\ a = <<>>
        /\ b \in IF fn = "Message" THEN LineStarts ELSE {<<>>}

TypeA(S, n) == /\ Len(a) < n /\ (b = <<>> \/ fn = "Message") /\ UNCHANGED <<fn, b>>
               /\ \E c \in S : a' = Append(a, c)
TypeB(S, n) == /\ Len(b) < n /\ UNCHANGED <<fn, a>>
               /\ \E c \in S : b' = Append(b, c)

Next == \/ fn = "WildCmp" /\ (TypeA({"a", "b", "*", "?"}, MaxWild) \/ TypeB({"a", "A", "b"}, MaxString))
        \/ fn = "Split" /\ TypeA({" ", "x"}, MaxLine)
        \/ fn = "QuoteSplit" /\ TypeA({<<"x">>, <<" ">>, <<"x", " ">>}, MaxValue)
        \/ fn = "Registry" /\ \/ TypeA({" ", "%", ";", "20", "x"}, MaxValue)
                              \/ TypeB({" ", "%", ";", "LF"}, MaxValue)
        \/ fn = "Message" /\ TypeA({"@", ":", " ", "x", ";", "="}, MaxLine)
        \/ fn \in Encodings /\ TypeA(Atoms(fn) \cup {"x"}, MaxValue)
Spec == Init /\ [][Next]_vars
-----------------------------------------------------------------------------
\* WildCmp, which goes back to the last * only, accepts what the mask means.
MasksRight == fn = "WildCmp" => (WildCmp(a, b) <=> Matches(AsLower(a), AsLower(b)))

\* What was escaped comes back, for each way to escape; so does an entry of a registry.
ComesBack == /\ fn \in Encodings => Unescape(fn, Escape(fn, a)) = a
             /\ fn = "Registry" /\ a # <<>> => ReadFromDisk(WriteToDisk(a, b)) = <<a, b>>

\* Token finds the tokens that Split makes, with the rest of them, and quoted words are
\* not split.
TokensAgree ==
  /\ fn = "Split" => \A e \in BOOLEAN, pos \in 0..MaxLine :
       LET ts == Split(a, e, FALSE)
       IN  /\ Token(a, pos, FALSE, e) = IF pos < Len(ts) THEN ts[pos + 1] ELSE <<>>
           /\ Split(Token(a, pos, TRUE, e), e, FALSE) = SubSeq(ts, pos + 1, Len(ts))
  /\ fn = "QuoteSplit" =>
       Split(Join([i \in DOMAIN a |-> <<"\"">> \o a[i] \o <<"\"">>], " "), FALSE, TRUE) = a

\* A line of the protocol's grammar that ZNC parses and passes on means the same to the next
\* one who parses it, also when SetParams made ZNC forget that it had a trailing parameter.
\* A command begins with a letter or a digit, a tag has a name, and a prefix has both user
\* and host or none of them (CNick::Parse takes a user without a host for a host).
Grammatical(m) == /\ At(m.command, 1) = "x" /\ <<>> \notin DOMAIN m.tags
                  /\ At(m.nick.nick, 1) # ":" /\ (m.nick.host # <<>> <=> m.nick.ident # <<>>)
                  /\ m.nick.nick = <<>> => m.nick.host = <<>>
SameMeaning ==
  LET m == Parse(b \o a)
  IN  (fn = "Message" /\ Grammatical(m))
        => \A c \in {m.colon, FALSE} :
             [Parse(ToLine([m EXCEPT !.colon = c])) EXCEPT !.colon = m.colon] = m
=============================================================================
