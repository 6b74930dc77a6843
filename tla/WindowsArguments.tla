------------------------- MODULE WindowsArguments -------------------------
(***************************************************************************)
(* quoteWindowsArgument and the command line that runProcess builds for    *)
(* CreateProcessW (Process.cpp), one character per step, against the rules *)
(* by which the C runtime of the started program splits the line again.    *)
(* A character is a member of Chars; \n, \v and \t behave as the blank.    *)
(***************************************************************************)
EXTENDS Integers, Sequences, SequencesExt

CONSTANTS
    MaxLength,      \* of an argument
    MaxArguments    \* on the command line

LineAssumption == MaxLength \in Nat /\ MaxArguments \in Nat

Blank == " "
Quote == "\""
Backslash == "\\"
Chars == {"a", Blank, Quote, Backslash}

VARIABLES
    arguments,      \* what runProcess was given
    arg,            \* the argument that is being quoted
    pos,            \* the next character of it; 0: not begun
    backslashes,    \* the pending backslashes
    line            \* the command line so far

vars == <<arguments, arg, pos, backslashes, line>>

Arguments == SeqOf(Chars, MaxLength)
Times(c, n) == [i \in 1..n |-> c]

Init ==
    /\ arguments \in SeqOf(Arguments, MaxArguments)
    /\ arg = 1 /\ pos = 0 /\ backslashes = 0 /\ line = <<>>

Busy == arg <= Len(arguments)
Text == arguments[arg]
NextArgument == arg' = arg + 1 /\ pos' = 0 /\ backslashes' = 0 /\ UNCHANGED arguments

\* Mutant: an empty argument disappears.
NeedsQuotes_NotEmpty(text) == \E i \in DOMAIN text : text[i] \in {Blank, Quote}

NeedsQuotes(text) == text = <<>> \/ \E i \in DOMAIN text : text[i] \in {Blank, Quote}

\* An argument without blanks and quotes is copied as it is.
CopyArgument ==
    /\ Busy /\ pos = 0 /\ ~NeedsQuotes(Text)
    /\ line' = line \o <<Blank>> \o Text
    /\ NextArgument

OpenQuote ==
    /\ Busy /\ pos = 0 /\ NeedsQuotes(Text)
    /\ line' = line \o <<Blank, Quote>>
    /\ pos' = 1
    /\ UNCHANGED <<arguments, arg, backslashes>>

\* Mutant: a quote doubles the backslashes before it and is not escaped.
QuoteCharacter_Unescaped ==
    /\ Busy /\ pos \in DOMAIN Text
    /\ IF Text[pos] = Backslash THEN backslashes' = backslashes + 1 /\ UNCHANGED line
       ELSE /\ backslashes' = 0
            /\ line' = line \o Times(Backslash, IF Text[pos] = Quote THEN 2 * backslashes
                                                ELSE backslashes) \o <<Text[pos]>>
    /\ pos' = pos + 1
    /\ UNCHANGED <<arguments, arg>>

\* Backslashes wait for what follows them: before a quote they are doubled and
\* one more escapes the quote.
QuoteCharacter ==
    /\ Busy /\ pos \in DOMAIN Text
    /\ IF Text[pos] = Backslash THEN backslashes' = backslashes + 1 /\ UNCHANGED line
       ELSE /\ backslashes' = 0
            /\ line' = line \o Times(Backslash, IF Text[pos] = Quote THEN 2 * backslashes + 1
                                                ELSE backslashes) \o <<Text[pos]>>
    /\ pos' = pos + 1
    /\ UNCHANGED <<arguments, arg>>

\* The closing quote must not be escaped by the argument's last backslashes.
CloseQuote ==
    /\ Busy /\ pos = Len(Text) + 1
    /\ line' = line \o Times(Backslash, 2 * backslashes) \o <<Quote>>
    /\ NextArgument

Next == CopyArgument \/ OpenQuote \/ QuoteCharacter \/ CloseQuote

Spec == Init /\ [][Next]_vars

-----------------------------------------------------------------------------
(* External: how the started program splits its command line.  Backslashes *)
(* are literal except before a quote: a pair stands for one, and an odd    *)
(* one escapes the quote.  Blanks outside quotes end an argument.          *)

Start == [args |-> <<>>, text |-> <<>>, begun |-> FALSE, quoted |-> FALSE, slashes |-> 0]

EndArgument(s) ==
    IF s.begun THEN [s EXCEPT !.args = Append(@, s.text), !.text = <<>>, !.begun = FALSE] ELSE s

Slashes(s, n) == [s EXCEPT !.text = @ \o Times(Backslash, n), !.slashes = 0,
                           !.begun = @ \/ s.slashes > 0]

Scan(s, c) ==
    CASE c = Backslash -> [s EXCEPT !.slashes = @ + 1]
      [] c = Quote ->
           LET t == Slashes(s, s.slashes \div 2) IN
           IF s.slashes % 2 = 1 THEN [t EXCEPT !.text = Append(@, Quote), !.begun = TRUE]
           ELSE [t EXCEPT !.quoted = ~@, !.begun = TRUE]
      [] c = Blank /\ ~s.quoted -> EndArgument(Slashes(s, s.slashes))
      [] OTHER -> LET t == Slashes(s, s.slashes) IN
                  [t EXCEPT !.text = Append(@, c), !.begun = TRUE]

\* The scan of a text from its start.
Scanned(text) ==
    LET scan[n \in 0..Len(text)] == IF n = 0 THEN Start ELSE Scan(scan[n - 1], text[n])
    IN  scan[Len(text)]

Split(text) == LET s == Scanned(text) IN EndArgument(Slashes(s, s.slashes)).args

-----------------------------------------------------------------------------

\* Whatever characters the arguments have (trailing backslashes, quotes after
\* backslashes, empty ones), the started program gets back exactly the
\* arguments quoted so far, and at the end all of them.
ArgumentsSurvive == pos = 0 => Split(line) = SubSeq(arguments, 1, arg - 1)
=============================================================================
