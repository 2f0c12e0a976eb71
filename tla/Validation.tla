------------------------------ MODULE Validation ------------------------------
(***************************************************************************)
(* The types of values (validation.js).  A type such as                    *)
(* list(neg(or(uciname,ip4addr))) is compiled into a stack of functions    *)
(* and arguments.  The functions share the value that they look at: neg()  *)
(* takes the "!" off it, list() puts each word in its place and ip4addr()  *)
(* what follows the "/", and it stays like that for those that come after. *)
(* Each says whether the value will do by marking the field; the last one  *)
(* wins.  Of the types of words there are those that tell apart what the   *)
(* combinations do.                                                        *)
(***************************************************************************)
EXTENDS Sequences, Naturals, SequencesExt

CONSTANTS Types,   \* the types of the field: Trees but the literal
          Contents \* what is typed in: sequences of words

VARIABLES
  datatype, \* the type of the field, as it is written: its tokens
  tree,     \* the same, as it is meant
  entered,  \* what the field contains
  optional, \* may it be empty?
  invalid,  \* class cbi-input-invalid
  verdict   \* of validate(), "none" since the field was edited

checkVars == <<datatype, tree, entered, optional, invalid, verdict>>

\* A tree: the name of a function, or a literal, and its arguments.
Node(name, args) == [name |-> name, args |-> args]
Nullary == {"string", "uciname", "port", "ip4addr", "ipaddr", "network"}
Combining == {"or", "and", "neg", "list"}
Literal == "auto"
NoMask == Node("ip4addr", <<Node(Literal, <<>>)>>)
Trees1 == {Node(n, <<>>) : n \in Nullary} \cup {NoMask}
Trees2 == {Node(n, <<a, b>>) : n \in {"or", "and"}, a \in Trees1 \cup {Node(Literal, <<>>)}, b \in Trees1}
          \cup {Node(n, <<a>>) : n \in {"neg", "list"}, a \in Trees1}
Trees3 == {Node(n, <<a>>) : n \in {"neg", "list"}, a \in Trees2}
Trees == Trees1 \cup Trees2 \cup Trees3 \cup {Node(Literal, <<>>)}

\* A word: its characters do not matter, but these differences do.
Words == {"name", "auto",         \* an identifier
          "24", "99",             \* a port; a prefix if not above 32
          "addr", "addr/24", "addr/99"}
Word(negated, text) == [negated |-> negated, text |-> text]
NoWord == ""

-----------------------------------------------------------------------------
(* compile() *)

\* How a tree is written.
Code[t \in Trees] ==
  IF t.args = <<>> THEN <<t.name>>
  ELSE <<t.name, "(">> \o Code[t.args[1]]
       \o FoldLeft(LAMBDA code, a : code \o <<",">> \o Code[a], <<>>, Tail(t.args)) \o <<")">>

\* What is between the commas and parentheses that are not within others.
SkipsDepth(depth) == depth = 0 \/ depth = 1 \* mutant
Outermost(depth) == depth = 0
Compile[code \in Seq(STRING)] ==
  LET all == Append(code, ",")
      Inner(c, i) == [c.stack EXCEPT ![Len(c.stack)].args = Compile[SubSeq(all, c.pos, i - 1)]]
      Token(c, i) ==
        CASE all[i] \in {",", "("} ->
               [c EXCEPT !.stack = IF Outermost(c.depth) /\ c.pos < i
                                   THEN Append(@, Node(all[c.pos], <<>>)) ELSE @,
                         !.pos = IF Outermost(c.depth) THEN i + 1 ELSE @,
                         !.depth = IF all[i] = "(" THEN @ + 1 ELSE @]
          [] all[i] = ")" /\ Outermost(c.depth - 1) ->
               [stack |-> Inner(c, i), pos |-> i + 1, depth |-> c.depth - 1]
          [] all[i] = ")" /\ ~Outermost(c.depth - 1) -> [c EXCEPT !.depth = @ - 1]
          [] OTHER -> c
  IN FoldLeft(Token, [pos |-> 1, depth |-> 0, stack |-> <<>>], [i \in 1..Len(all) |-> i]).stack

-----------------------------------------------------------------------------
(* The functions *)

\* What they share: the value they look at, the mark of the field, whether one
\* of them has thrown an exception; and what the last one returned.
Contexts == [value : Seq([negated : BOOLEAN, text : STRING]),
             invalid : BOOLEAN, thrown : BOOLEAN, ok : BOOLEAN]
Context(value) == [value |-> value, invalid |-> FALSE, thrown |-> FALSE, ok |-> FALSE]

Asserted(c, ok) == [c EXCEPT !.ok = ok, !.invalid = ~ok]

Single(value) == Len(value) = 1 /\ ~value[1].negated
Text(c) == IF Single(c.value) THEN c.value[1].text ELSE NoWord
Put(c, text) == [c EXCEPT !.value = <<Word(FALSE, text)>>]

MaskOf == [t \in {"addr/24", "addr/99"} |-> IF t = "addr/24" THEN "24" ELSE "99"]
Ip4prefix(c) == Asserted(c, Text(c) = "24")
Ip4addr(c, nomask) ==
  IF ~nomask /\ Text(c) \in DOMAIN MaskOf
  THEN LET p == Ip4prefix(Put(c, MaskOf[Text(c)])) IN Asserted(p, p.ok)
  ELSE Asserted(c, Text(c) = "addr")

\* No word here is an IPv6 address.
Ipaddr(c) == LET a == Ip4addr(c, FALSE) IN Asserted(a, a.ok)

Identifiers == {"name", "auto", "24", "99"}
Uciname(c) == Asserted(c, Text(c) \in Identifiers)
Host(c) ==
  LET h == Asserted(c, Text(c) \in Identifiers)
      a == IF h.ok THEN h ELSE Ipaddr(h)
  IN Asserted(a, a.ok)
Network(c) ==
  LET u == Uciname(c)
      h == IF u.ok THEN u ELSE Host(u)
  IN Asserted(h, h.ok)

\* neg(): a "!" alone leaves nothing.
KeepsSign(value) == value \* mutant
WithoutSign(value) ==
  IF value # <<>> /\ value[1].negated
  THEN IF value[1].text = NoWord THEN Tail(value)
       ELSE <<Word(FALSE, value[1].text)>> \o Tail(value)
  ELSE value

\* or() and and() take their arguments in turn, up to the first that answers
\* "until"; list() takes the words.  Words that are none are a match that is
\* none, which has no length.
Apply[t \in Trees, c \in Contexts] ==
  LET Marked(d) == Asserted(d, d.ok)
      InTurn(until) ==
        FoldLeft(LAMBDA d, a : IF d.thrown \/ d.ok = until THEN d
                               ELSE IF a.name = Literal THEN [d EXCEPT !.ok = (Text(d) = Literal)]
                               ELSE Apply[a, d],
                 [c EXCEPT !.ok = ~until], t.args)
      EachWord ==
        IF c.value = <<>> THEN [c EXCEPT !.thrown = TRUE]
        ELSE FoldLeft(LAMBDA d, w : IF d.thrown \/ ~d.ok THEN d
                                    ELSE Apply[t.args[1], [d EXCEPT !.value = <<w>>]],
                      [c EXCEPT !.ok = TRUE], c.value)
  IN
  CASE t.name = "string" -> [c EXCEPT !.ok = TRUE]
    [] t.name = "uciname" -> Uciname(c)
    [] t.name = "port" -> Asserted(c, Text(c) \in {"24", "99"})
    [] t.name = "ip4addr" -> Ip4addr(c, t.args # <<>>)
    [] t.name = "ipaddr" -> Ipaddr(c)
    [] t.name = "network" -> Network(c)
    [] t.name = "or" -> Marked(InTurn(TRUE))
    [] t.name = "and" -> Marked(InTurn(FALSE))
    [] t.name = "neg" -> Marked(Apply[t.args[1], [c EXCEPT !.value = WithoutSign(@)]])
    [] t.name = "list" -> Marked(EachWord)

-----------------------------------------------------------------------------
(* The field *)

CheckInit ==
  /\ tree \in Types /\ datatype = Code[tree]
  /\ optional \in BOOLEAN
  /\ entered = <<>> /\ invalid = FALSE /\ verdict = "none"

Edit ==
  /\ \E v \in Contents : entered' = v
  /\ verdict' = "none"
  /\ UNCHANGED <<datatype, tree, optional, invalid>>

\* validate(): a function of the page, if there is one, has the last word.
Validate ==
  /\ LET c == IF entered = <<>> THEN Asserted(Context(entered), optional)
              ELSE Apply[Compile[datatype][1], Context(entered)]
     IN IF c.thrown THEN invalid' = c.invalid /\ verdict' = "thrown"
        ELSE \/ /\ invalid' = c.invalid
                /\ verdict' = IF c.ok THEN "valid" ELSE "invalid"
             \/ c.ok /\ invalid' = TRUE /\ verdict' = "refused"
  /\ UNCHANGED <<datatype, tree, entered, optional>>

CheckNext == Edit \/ Validate
CheckSpec == CheckInit /\ [][CheckNext]_checkVars

-----------------------------------------------------------------------------
(* Properties *)

\* What a type means, of a value that nobody else has looked at.
Unsigned(v) ==
  IF v # <<>> /\ v[1] = Word(TRUE, NoWord) THEN Tail(v)
  ELSE [i \in DOMAIN v |-> [v[i] EXCEPT !.negated = @ /\ i # 1]]
Accepts[t \in Trees, v \in Seq([negated : BOOLEAN, text : STRING])] ==
  LET word == IF Single(v) THEN v[1].text ELSE NoWord IN
  CASE t.name = "string" -> TRUE
    [] t.name = Literal -> word = Literal
    [] t.name = "uciname" -> word \in Identifiers
    [] t.name = "port" -> word \in {"24", "99"}
    [] t.name = "ip4addr" -> word = "addr" \/ (t.args = <<>> /\ word = "addr/24")
    [] t.name = "ipaddr" -> word \in {"addr", "addr/24"}
    [] t.name = "network" -> word \in Identifiers \cup {"addr", "addr/24"}
    [] t.name = "or" -> \E i \in DOMAIN t.args : Accepts[t.args[i], v]
    [] t.name = "and" -> \A i \in DOMAIN t.args : Accepts[t.args[i], v]
    [] t.name = "neg" -> Accepts[t.args[1], Unsigned(v)]
    [] t.name = "list" -> \A i \in DOMAIN v : Accepts[t.args[1], <<v[i]>>]

\* Does a function leave the value to the next one as it was?
Leaves[t \in Trees] ==
  /\ t.name \notin {"neg", "list", "ipaddr", "network"}
  /\ t.name = "ip4addr" => t.args # <<>>
  /\ t.name \in {"or", "and"} => \A i \in DOMAIN t.args : Leaves[t.args[i]]
Orderly[t \in Trees] ==
  /\ t.name \in {"or", "and"} => \A i \in 1..Len(t.args) - 1 : Leaves[t.args[i]]
  /\ t.name \in Combining => \A i \in DOMAIN t.args : Orderly[t.args[i]]

\* A type is compiled into the functions and arguments that were written.
CompiledAsMeant == Compile[datatype] = <<tree>>

\* Where no function spoils the value for a later one, a value is valid if and only
\* if the type means it to be.  (or(ipaddr,network) does not: it takes an address
\* with any number for a prefix, since network() gets to see just the number.)
ValidIfMeant ==
  Orderly[tree] /\ entered # <<>> =>
    /\ verdict \in {"valid", "refused"} => Accepts[tree, entered]
    /\ verdict = "invalid" => ~Accepts[tree, entered]

\* The field is marked exactly if it was found wanting, for no value or any.
MarkedIfInvalid ==
  /\ verdict = "valid" => ~invalid
  /\ verdict \in {"invalid", "refused"} => invalid

ValidSound == CompiledAsMeant /\ ValidIfMeant /\ MarkedIfInvalid
=============================================================================
