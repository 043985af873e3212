------------------------------ MODULE Strings ------------------------------
(***************************************************************************)
(* The functions of ustd on paths and strings that the service builds its  *)
(* file names with (path_string.cpp, string.cpp).  A string is a sequence  *)
(* of characters.                                                          *)
(***************************************************************************)
EXTENDS Naturals, Sequences, SequencesExt, FiniteSetsExt

SLASH == "/"
NPOS == 0      \* a position is 1 and more, or not there

\* std::string's find and rfind, from a position.
find(s, what, from) ==
  LET at == {i \in from..(Len(s) - Len(what) + 1) : SubSeq(s, i, i + Len(what) - 1) = what} IN
    IF at = {} THEN NPOS ELSE Min(at)
rfind(s, c) == LET at == {i \in 1..Len(s) : s[i] = c} IN IF at = {} THEN NPOS ELSE Max(at)
substr(s, from) == SubSeq(s, from, Len(s))

-----------------------------------------------------------------------------
trim_slash(path) ==
  LET kept == {i \in 1..Len(path) : path[i] # SLASH} IN
    SubSeq(path, 1, IF kept = {} THEN 0 ELSE Max(kept))

\* One slash between the two: one is added, or one of two is dropped.
compose_path(first, last) ==
  LET ends   == first # << >> /\ Last(first) = SLASH
      begins == last # << >> /\ Head(last) = SLASH
  IN CASE ends /\ begins  -> first \o Tail(last)
       [] ends # begins   -> first \o last
       [] ~ends /\ ~begins -> first \o <<SLASH>> \o last

get_parent_path(path) ==
  LET the_path == trim_slash(path) IN
    IF rfind(the_path, SLASH) = NPOS THEN << >> ELSE SubSeq(the_path, 1, rfind(the_path, SLASH) - 1)

\* A path without a slash before its end comes back with the slashes at its end.
get_last_path(path) ==
  LET the_path == trim_slash(path) IN
    IF rfind(the_path, SLASH) = NPOS THEN path ELSE substr(the_path, rfind(the_path, SLASH) + 1)

-----------------------------------------------------------------------------
\* The loop of split_string, from each position; a delimiter at the very end adds
\* an empty entry.
SplitFrom(source, delimiter) ==
  LET entries[pos \in 1..(Len(source) + 1)] ==
        LET at   == find(source, delimiter, pos)
            next == at + Len(delimiter)
        IN IF at = NPOS THEN <<substr(source, pos)>>
           ELSE IF next > Len(source) THEN <<SubSeq(source, pos, at - 1), << >> >>
           ELSE <<SubSeq(source, pos, at - 1)>> \o entries[next]
  IN  entries

\* Mutant: nothing follows a delimiter at the end.
split_string_dropping(source, delimiter) ==
  LET entries == SplitFrom(source, delimiter)[1] IN
    IF Len(entries) > 1 /\ Last(entries) = << >> THEN Front(entries) ELSE entries

split_string(source, delimiter) == SplitFrom(source, delimiter)[1]

\* replace_string: the source after each number of rounds, of which it takes no more
\* than it has characters.  (For an empty old value the code's loop does not end.)
ReplaceNext(loop, old_value, new_value) ==
  LET at == find(loop.source, old_value, loop.pos) IN
    IF at = NPOS THEN loop
    ELSE [source |-> SubSeq(loop.source, 1, at - 1) \o new_value
                       \o substr(loop.source, at + Len(old_value)),
          pos    |-> at + Len(new_value)]

ReplaceLoop(source, old_value, new_value) ==
  LET after[n \in 0..Len(source)] ==
        IF n = 0 THEN [source |-> source, pos |-> 1]
        ELSE ReplaceNext(after[n - 1], old_value, new_value)
  IN  after

replace_string(source, old_value, new_value) ==
  ReplaceLoop(source, old_value, new_value)[Len(source)].source

-----------------------------------------------------------------------------
\* hex_display_string: lines of 32 bytes with gaps after each 8 and 16, through a
\* buffer of some room.  Characters are digits, SPACE and NEWLINE.
SPACE == 16
NEWLINE == 17

Gap(i, size) ==
  IF i = size \/ i % 32 = 0 THEN <<NEWLINE>>
  ELSE IF i % 16 = 0 THEN <<SPACE, SPACE>> ELSE IF i % 8 = 0 THEN <<SPACE>> ELSE << >>

FewLeft(buffer, room) == Len(buffer) > room - 8

\* The loop: the result so far, what is in the buffer, and the most that was in it.
DisplayByte(loop, i, byte, size, room) ==
  LET buffer == loop.buffer \o <<byte \div 16, byte % 16>> \o Gap(i, size)
      empty  == i = size \/ FewLeft(buffer, room)
  IN [loop EXCEPT !.result = IF empty THEN @ \o buffer ELSE @,
                  !.buffer = IF empty THEN << >> ELSE buffer,
                  !.most   = IF Len(buffer) > @ THEN Len(buffer) ELSE @]

DisplayLoop(data, room) ==
  LET after[i \in 0..Len(data)] ==
        IF i = 0 THEN [result |-> << >>, buffer |-> << >>, most |-> 0]
        ELSE DisplayByte(after[i - 1], i, data[i], Len(data), room)
  IN  after

hex_display_string(data, room) == DisplayLoop(data, room)[Len(data)]
=============================================================================
