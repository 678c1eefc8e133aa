-------------------------------- MODULE Wzip --------------------------------
(***************************************************************************)
(* initial-utilities/wzip/wzip.c: run-length encoding of the files on the  *)
(* command line.  The scanner carries a token, the run it is counting,     *)
(* from line to line and from file to file.                                *)
(***************************************************************************)
EXTENDS Integers, Sequences, SequencesExt

CONSTANTS
  Letters,    \* the characters other than the end of line
  MaxLength,  \* bound: characters of a file
  MaxFiles    \* bound: files on the command line

VARIABLES
  files,   \* the arguments: the text of each file, or missing
  i,       \* the file that is read
  pos,     \* characters read of it; -1: it is not open
  token,   \* the run that is counted: [count, ch]
  lstch,   \* the last character of this file
  out,     \* the tokens printed
  rc       \* exit status, or running

vars == <<files, i, pos, token, lstch, out, rc>>

NL == "newline"
NUL == "NUL"
Char == Letters \cup {NL}
missing == <<"missing">>
running == -1
nulltoken == [count |-> 0, ch |-> NUL]

File == UNION {[1 .. n -> Char] : n \in 0 .. MaxLength}

Init ==
  /\ files \in UNION {[1 .. n -> File \cup {missing}] : n \in 0 .. MaxFiles}
  /\ i = 1 /\ pos = -1
  /\ token = nulltoken /\ lstch = NUL /\ out = <<>>
  /\ rc = IF files = <<>> THEN 1 ELSE running

-----------------------------------------------------------------------------

\* current = 0: the character begins a line.
LineStart(text, n) == n = 1 \/ text[n - 1] = NL

printToken(s) == [s EXCEPT !.out = Append(@, s.token)]
updateTokenCount(s) == [s EXCEPT !.token.count = @ + 1]
newToken(s, ch) == [s EXCEPT !.token = [count |-> 1, ch |-> ch]]

\* Before a line, if its first character ends the run of the last one.
LineBreak(s, ch) ==
  IF s.lstch # NUL /\ s.lstch # ch THEN [printToken(s) EXCEPT !.token = nulltoken] ELSE s

\* The first character of a line; the token may come from an earlier file, and
\* its character is not compared.
FirstChar(s, ch) ==
  IF s.token.count > 0 THEN updateTokenCount(s) ELSE newToken(s, ch)

\* Any other character.  Both tests are made, the second one on lstch: after the
\* first character of another file the two may both hold, or neither.
isNewChar(s, ch) == ch # s.token.ch
isRepeatChar(s, ch) == ch = s.lstch
EndRun_unprinted(s, ch) == IF isNewChar(s, ch) THEN newToken(s, ch) ELSE s
EndRun(s, ch) == IF isNewChar(s, ch) THEN newToken(printToken(s), ch) ELSE s
NextChar(s, ch) ==
  IF isRepeatChar(s, ch) THEN updateTokenCount(EndRun(s, ch)) ELSE EndRun(s, ch)

Scan(s, ch, line_start) ==
  [(IF line_start THEN FirstChar(LineBreak(s, ch), ch) ELSE NextChar(s, ch)) EXCEPT !.lstch = ch]

-----------------------------------------------------------------------------

\* procfiles: a file that cannot be opened ends the program at once.
Open ==
  /\ rc = running /\ pos = -1
  /\ IF files[i] = missing THEN rc' = 1 /\ UNCHANGED <<pos, lstch>>
                           ELSE pos' = 0 /\ lstch' = NUL /\ UNCHANGED rc
  /\ UNCHANGED <<files, i, token, out>>

\* readlines: one character.
ReadChar ==
  /\ rc = running /\ pos >= 0 /\ pos < Len(files[i])
  /\ LET s == Scan([token |-> token, lstch |-> lstch, out |-> out],
                   files[i][pos + 1], LineStart(files[i], pos + 1))
     IN  token' = s.token /\ lstch' = s.lstch /\ out' = s.out
  /\ pos' = pos + 1
  /\ UNCHANGED <<files, i, rc>>

\* The end of a file.  After the last one the token is printed.  As long as no
\* character has been read at all the same file is opened again.
Close ==
  /\ rc = running /\ pos >= 0 /\ pos = Len(files[i])
  /\ i' = IF token.count # 0 THEN i + 1 ELSE i
  /\ IF i' > Len(files)
     THEN out' = Append(out, token) /\ token' = nulltoken /\ rc' = 0
     ELSE UNCHANGED <<out, token, rc>>
  /\ pos' = -1
  /\ UNCHANGED <<files, lstch>>

Next == Open \/ ReadChar \/ Close

Spec == Init /\ [][Next]_vars

-----------------------------------------------------------------------------
(* Properties.                                                             *)

\* The text that unzips from what is printed and the token in hand.
Run(tok) == [n \in 1 .. tok.count |-> tok.ch]
Decode(tokens) == FlattenSeq([n \in 1 .. Len(tokens) |-> Run(tokens[n])])

Unzipped == Decode(Append(out, token))
\* What has been read: the files before i, and pos characters of file i.
Read == FlattenSeq(SubSeq(files, 1, i - 1)) \o (IF pos > 0 THEN SubSeq(files[i], 1, pos) ELSE <<>>)

\* Run-length encoding, line by line, loses and invents nothing: until a second
\* file is read, what unzips is what was read, and no two tokens in a row have
\* the same character, although a run may go on over the end of a line.
FirstFileExact ==
  (i = 1 \/ (i = 2 /\ pos <= 0)) =>
    /\ Unzipped = Read
    /\ \A n \in 1 .. Len(out) - 1 : out[n].ch # out[n + 1].ch

\* "when unzipped, will turn into a single uncompressed stream of text" (README
\* of the initial utilities, about several files).
SingleStream == Unzipped = Read
=============================================================================
