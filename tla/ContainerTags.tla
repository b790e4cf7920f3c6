---------------------------- MODULE ContainerTags ----------------------------
(***************************************************************************)
(* The containerTag of a request: which one it names, and what actor and   *)
(* container tags it stands for.  A string is the sequence of its segments *)
(* between colons, so joining strings with colons concatenates them; the   *)
(* empty string is one empty segment.  An absent field is the empty set.   *)
(***************************************************************************)
EXTENDS Integers, Sequences, SequencesExt

CONSTANTS
  User,     \* the segment "user"
  Empty,    \* the empty segment
  Segment,  \* segments of letters, digits, '_' and '-', Empty included
  AnySegment \* segments of whatever characters but the colon

ASSUME SegmentAssumption ==
  /\ User \in Segment /\ Empty \in Segment
  /\ Segment \subseteq AnySegment

String == Seq(AnySegment) \ {<<>>}

EmptyString == <<Empty>>

\* validate_container_tag; the length limit is not modelled.
Valid(tag) == tag # EmptyString /\ ToSet(tag) \subseteq Segment

\* The one tag of the singular or the plural field, if there is one.
Named(singular, plural) ==
  LET one == {t \in singular : t # EmptyString}
      sole == {v[1] : v \in {u \in plural : Len(u) = 1 /\ u[1] # EmptyString}}
  IN IF one # {} THEN one ELSE sole

\* resolve_container_tag: the tag, or nothing when the request is refused.
Resolve(singular, plural) == {t \in Named(singular, plural) : Valid(t)}

\* Consecutive segments as key:value strings, a lone last one by itself.
PairUp(s) ==
  [i \in 1 .. (Len(s) + 1) \div 2 |->
     IF 2 * i <= Len(s) THEN SubSeq(s, 2 * i - 1, 2 * i) ELSE <<s[2 * i - 1]>>]

\* parse_container_tag.
Parse(tag) ==
  LET n == Len(tag) IN
  IF n < 2 THEN [actor |-> tag, tags |-> <<>>]
  ELSE IF tag[n - 1] = User
  THEN [actor |-> <<User, tag[n]>>, tags |-> PairUp(SubSeq(tag, 1, n - 2))]
  ELSE [actor |-> <<tag[n]>>, tags |-> [i \in 1 .. n - 1 |-> <<tag[i]>>]]

\* reconstruct_container_tag.
Reconstruct(scope) == FlattenSeq(Append(scope.tags, scope.actor))

\* Rows stored under `tag` are in the scope: the same actor, all of its tags.
InScope(tag, scope) ==
  /\ Parse(tag).actor = scope.actor
  /\ ToSet(scope.tags) \subseteq ToSet(Parse(tag).tags)
=============================================================================
