--------------------------- MODULE TextProperties ---------------------------
(***************************************************************************)
(* What the functions on paths and strings keep.  A text is two strings    *)
(* and a third one to put in; a block is the bytes of a dump.              *)
(***************************************************************************)
EXTENDS Strings

CONSTANTS Chars, Texts, Blocks, NoText

ASSUME TextAssumption ==
  /\ Texts \subseteq [first : Seq(Chars), second : Seq(Chars), third : Seq(Chars)]
  /\ Blocks \subseteq [data : Seq(0..255)]
  /\ NoText \notin Texts \union Blocks

VARIABLE text   \* the strings looked at

TextInit == text = NoText
Look == text = NoText /\ text' \in Texts \union Blocks
TextSpec == TextInit /\ [][Look]_text

-----------------------------------------------------------------------------
Joined(entries, delimiter) ==
  LET from[i \in 1..Len(entries)] ==
        IF i = Len(entries) THEN entries[i] ELSE entries[i] \o delimiter \o from[i + 1]
  IN  from[1]

\* A name put under a path is found again: there is one slash between the two
\* (or those the path had before), whichever of them brought it.
PathsCompose ==
  text \in Texts =>
    LET a == text.first  b == text.second IN
      (b # << >> /\ SLASH \notin ToSet(b)) =>
        \A name \in {b, <<SLASH>> \o b} :
          /\ get_last_path(compose_path(a, name)) = b
          /\ get_parent_path(compose_path(a, name))
               = IF a # << >> /\ Last(a) = SLASH THEN Front(a) ELSE a

\* The entries of a string, put together again, are the string, and the delimiter
\* is in none of them, also when it is at the end, doubled, or overlaps itself.
SplitIsWhole ==
  text \in Texts =>
    LET d == text.second  entries == split_string(text.first, d) IN
      d # << >> => /\ Joined(entries, d) = text.first
                   /\ \A i \in 1..Len(entries) : find(entries[i], d, 1) = NPOS

\* Each place of the old value is replaced once: what is put in is not looked at.
ReplaceIsOnce ==
  text \in Texts =>
    LET old == text.second IN
      old # << >> => replace_string(text.first, old, text.third)
                       = Joined(split_string(text.first, old), text.third)

\* The dump of a block in a buffer of 40 is the one in a buffer without limit, and
\* the buffer never overflows.
DisplayFits ==
  text \in Blocks =>
    LET small == hex_display_string(text.data, 40) IN
      /\ small.most <= 40
      /\ small.result = hex_display_string(text.data, 1024).result

\* Names and texts keep what they are made of: nothing is doubled, dropped or cut.
TextIsKept == text # NoText => PathsCompose /\ SplitIsWhole /\ ReplaceIsOnce /\ DisplayFits
=============================================================================
