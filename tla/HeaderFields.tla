---------------------------- MODULE HeaderFields ----------------------------
(***************************************************************************)
(* http/headers.cpp: the field list behind every request, response and     *)
(* trailer.  A name is a pair: the name in lower case and its spelling.    *)
(* A value is a sequence of characters with a record of the list elements  *)
(* it stands for, in lower case, which the code never sees.                *)
(***************************************************************************)
EXTENDS Integers, Sequences, SequencesExt

CONSTANTS
  Names,      \* field names, in lower case
  Spellings,  \* ways to write one
  Values,     \* records [chars, elements]
  Lower,      \* Lower[c]: ascii_lower of a character
  MaxAdds     \* longest history of add() on one field (bound)

VARIABLES
  fields_,    \* sequence of records [name, value]
  said,       \* history: the list elements given for each name since its last reset
  adds        \* history: how many values were given

iequals(a, b) == Len(a) = Len(b) /\ \A i \in DOMAIN a : Lower[a[i]] = Lower[b[i]]

SameName(a, b) == a[1] = b[1]

\* The index of the first field of that name, or 0.
find(name) == SelectInSeq(fields_, LAMBDA f : SameName(f.name, name))

Headers_set(name, v) ==
  /\ fields_' = IF find(name) = 0 THEN Append(fields_, [name |-> name, value |-> v.chars])
                ELSE [fields_ EXCEPT ![find(name)].value = v.chars]
  /\ said' = [said EXCEPT ![name[1]] = v.elements]
  /\ adds' = [adds EXCEPT ![name[1]] = 1]

\* Faulty variant: the separator is missing.
Joined_NoComma(old, new) == old \o new

Joined(old, new) == old \o <<",", " ">> \o new

Headers_add(name, v) ==
  /\ adds[name[1]] < MaxAdds
  /\ fields_' = IF find(name) = 0 THEN Append(fields_, [name |-> name, value |-> v.chars])
                ELSE [fields_ EXCEPT ![find(name)].value = Joined(@, v.chars)]
  /\ said' = [said EXCEPT ![name[1]] = @ \cup v.elements]
  /\ adds' = [adds EXCEPT ![name[1]] = @ + 1]

Headers_remove(name) ==
  /\ find(name) # 0
  /\ fields_' = RemoveAt(fields_, find(name))
  /\ said' = [said EXCEPT ![name[1]] = {}] /\ adds' = [adds EXCEPT ![name[1]] = 0]

trim_ows(s) ==
  LET Kept(c) == c \notin {" ", "\t"} IN
  IF SelectInSeq(s, Kept) = 0 THEN <<>>
  ELSE SubSeq(s, SelectInSeq(s, Kept), SelectLastInSeq(s, Kept))

\* The loop of has_token(): the piece up to the next comma, then the rest.
has_token(name, token) ==
  LET value == fields_[find(name)].value
      Comma(pos) == SelectInSubSeq(value, pos, Len(value), LAMBDA c : c = ",")
      Seen[pos \in 1..(Len(value) + 1)] ==
        LET comma == Comma(pos) IN
        \/ iequals(trim_ows(SubSeq(value, pos, IF comma = 0 THEN Len(value) ELSE comma - 1)), token)
        \/ comma # 0 /\ Seen[comma + 1]
  IN find(name) # 0 /\ Seen[1]

FieldNames == Names \X Spellings

HeadersInit == fields_ = <<>> /\ said = [n \in Names |-> {}] /\ adds = [n \in Names |-> 0]

HeadersNext ==
  \E name \in FieldNames : Headers_remove(name) \/ \E v \in Values : Headers_set(name, v) \/ Headers_add(name, v)

-----------------------------------------------------------------------------

\* After any set(), add() and remove() calls has_token() finds exactly the list elements
\* the calls gave for that name, in any spelling: joining repeated fields with ", "
\* neither hides a token nor makes one out of two, and no second field hides one.
TokensKept ==
  \A name \in FieldNames, token \in UNION {v.elements : v \in Values} :
    has_token(name, token) <=> token \in said[name[1]]

=============================================================================
