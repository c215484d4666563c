----------------------------- MODULE Expression -----------------------------
(***************************************************************************)
(* The expressions of bfs/Query.cpp: what a query is parsed to, and how    *)
(* one of its equations is compared with the value of an attribute.        *)
(*                                                                         *)
(* A query is a sequence of tokens, "(", ")", "!", "&&", "||" and          *)
(* equations.  It is parsed to a sequence of terms in which every operator *)
(* stands behind its two sides.  A value is a sequence of numbers: the     *)
(* characters of a string, or a number alone.  A pattern is a sequence of  *)
(* symbols.                                                                *)
(*                                                                         *)
(* Left out: the spelling of tokens and numbers, escaped characters, and   *)
(* the bytes that a character is made of.                                  *)
(***************************************************************************)
EXTENDS Integers, SequencesExt

Token(t) == [t |-> t]

\* An equation; its pattern is empty unless its value has a pattern symbol in it.
Equation(attr, op, value, pattern) == [t |-> "eq", attr |-> attr, op |-> op, value |-> value, pattern |-> pattern]

Char(c) == [sym |-> "set", chars |-> {c}, invert |-> FALSE, plain |-> TRUE]
CharSet(chars, invert) == [sym |-> "set", chars |-> chars, invert |-> invert, plain |-> FALSE]
AnyChar == [sym |-> "any", plain |-> FALSE]
Star == [sym |-> "star", plain |-> FALSE]

-----------------------------------------------------------------------------
(* Patterns.                                                               *)

\* getFirstPatternSymbol
FirstSymbol(pattern) ==
  LET wild == {i \in 1 .. Len(pattern) : ~ pattern[i].plain}
  IN  IF wild = {} THEN -1 ELSE Min(wild) - 1

Fits(symbol, c) == (c \in symbol.chars) # symbol.invert

\* matchString.  A question mark behind a star must leave a character over.
RECURSIVE MatchString(_, _)
MatchString(pattern, string) ==
  IF pattern = <<>> THEN string = <<>>
  ELSE IF string = <<>> THEN \A i \in 1 .. Len(pattern) : pattern[i].sym = "star"
  ELSE CASE pattern[1].sym = "any" -> MatchString(Tail(pattern), Tail(string))
         [] pattern[1].sym = "set" -> /\ Fits(pattern[1], string[1])
                                      /\ MatchString(Tail(pattern), Tail(string))
         [] pattern[1].sym = "star" ->
              LET rest == SelectInSeq(pattern, LAMBDA s : s.sym = "set")
                  wild == IF rest = 0 THEN Len(pattern) ELSE rest - 1
                  skip == Cardinality({i \in 1 .. wild : pattern[i].sym = "any"})
              IN  /\ skip = 0 \/ skip < Len(string)
                  /\ \/ rest = 0
                     \/ \E i \in skip + 1 .. Len(string) :
                          MatchString(SubSeq(pattern, rest, Len(pattern)), SubSeq(string, i, Len(string)))

-----------------------------------------------------------------------------
(* Comparing.                                                              *)

\* compareKeys, for values that are there.
CompareKeys(a, b) ==
  LET n == Min({Len(a), Len(b)})
      differ == {i \in 1 .. n : a[i] # b[i]}
  IN  IF differ # {} THEN a[Min(differ)] - b[Min(differ)] ELSE Len(a) - Len(b)

Holds(op, compare) ==
  CASE op = "=" -> compare = 0
    [] op = "!=" -> compare # 0
    [] op = "<" -> compare < 0
    [] op = "<=" -> compare <= 0
    [] op = ">" -> compare > 0
    [] op = ">=" -> compare >= 0

\* A time is indexed with a number behind it that tells it from others.
IsSpecialTime(attr) == attr = "last_modified"
Unshifted(attr, value) == IF IsSpecialTime(attr) /\ value # <<>> THEN <<value[1]>> ELSE value

\* Equation::CompareTo
CompareTo(eq, value) ==
  Holds(eq.op, IF eq.pattern # <<>>
                 THEN IF MatchString(eq.pattern, value) THEN 0 ELSE 1
                 ELSE CompareKeys(Unshifted(eq.attr, value), eq.value))

-----------------------------------------------------------------------------
(* Parsing.                                                                *)

\* Mutant: the complement of an operator swaps the sides of the order.
OppositeSwapped(term) ==
  LET swapped == [op \in {"<", "<=", ">", ">=", "=", "!=", "&&", "||"} |->
                    CASE op = "=" -> "!=" [] op = "!=" -> "=" [] op = "<" -> ">" [] op = "<=" -> ">="
                      [] op = ">" -> "<" [] op = ">=" -> "<=" [] op = "&&" -> "||" [] op = "||" -> "&&"]
  IN  [term EXCEPT !.op = swapped[@]]

\* Complement: a negation is carried into the equations.
Opposite(term) ==
  LET complement == [op \in {"<", "<=", ">", ">=", "=", "!=", "&&", "||"} |->
                       CASE op = "=" -> "!=" [] op = "!=" -> "=" [] op = "<" -> ">=" [] op = "<=" -> ">"
                         [] op = ">" -> "<=" [] op = ">=" -> "<" [] op = "&&" -> "||" [] op = "||" -> "&&"]
  IN  [term EXCEPT !.op = complement[@]]

Failed == [ok |-> FALSE, terms |-> <<>>, rest |-> <<>>]
Comes(parsed, t) == parsed.rest # <<>> /\ parsed.rest[1].t = t

\* The last term of each side is its root.
Combined(left, op, right) ==
  [right EXCEPT !.terms = Append(@, [op |-> op, left |-> Len(left.terms), right |-> Len(right.terms)])]

RECURSIVE ParseOr(_, _), OrLoop(_), ParseAnd(_, _), AndLoop(_), ParseEquation(_, _)

\* ParseEquation: an equation, or an expression in brackets.
ParseEquation(terms, tokens) ==
  LET _not == tokens # <<>> /\ tokens[1].t = "!"
      in == [ok |-> TRUE, terms |-> terms, rest |-> IF _not THEN Tail(tokens) ELSE tokens]
      inner == ParseOr(terms, Tail(in.rest))
  IN  CASE Comes(in, "(") /\ inner.ok /\ Comes(inner, ")") ->
             [ok |-> TRUE,
              terms |-> [i \in 1 .. Len(inner.terms) |->
                           IF _not /\ i > Len(terms) THEN Opposite(inner.terms[i]) ELSE inner.terms[i]],
              rest |-> Tail(inner.rest)]
        [] Comes(in, "eq") /\ ~ _not -> [in EXCEPT !.terms = Append(@, in.rest[1]), !.rest = Tail(@)]
        [] OTHER -> Failed

AndLoop(left) ==
  IF ~ Comes(left, "&&") THEN left
  ELSE LET right == ParseAnd(left.terms, Tail(left.rest))
       IN  IF right.ok THEN AndLoop(Combined(left, "&&", right)) ELSE Failed

ParseAnd(terms, tokens) ==
  LET left == ParseEquation(terms, tokens)
  IN  IF left.ok THEN AndLoop(left) ELSE Failed

OrLoop(left) ==
  IF ~ Comes(left, "||") THEN left
  ELSE LET right == ParseAnd(left.terms, Tail(left.rest))
       IN  IF right.ok THEN OrLoop(Combined(left, "||", right)) ELSE Failed

ParseOr(terms, tokens) ==
  LET left == ParseAnd(terms, tokens)
  IN  IF left.ok THEN OrLoop(left) ELSE Failed

\* Expression: what is behind a complete expression is not looked at.
Parsed(tokens) == ParseOr(<<>>, tokens)

-----------------------------------------------------------------------------
(* What an expression means, for the properties.                           *)

\* Patterns by their definition: a star stands for any number of characters.
RECURSIVE Matches(_, _)
Matches(pattern, string) ==
  IF pattern = <<>> THEN string = <<>>
  ELSE IF pattern[1].sym = "star"
    THEN \E n \in 0 .. Len(string) : Matches(Tail(pattern), SubSeq(string, n + 1, Len(string)))
  ELSE /\ string # <<>>
       /\ pattern[1].sym = "set" => Fits(pattern[1], string[1])
       /\ Matches(Tail(pattern), Tail(string))

Satisfies(eq, value) ==
  IF eq.pattern # <<>> THEN Matches(eq.pattern, value) = (eq.op = "=")
                       ELSE Holds(eq.op, CompareKeys(Unshifted(eq.attr, value), eq.value))

\* "||" binds less than "&&", and "&&" less than "!" and brackets.
RECURSIVE Means(_, _)
Means(tokens, values) ==
  LET depth(i) == Cardinality({j \in 1 .. i : tokens[j].t = "("}) - Cardinality({j \in 1 .. i : tokens[j].t = ")"})
      at(t) == {i \in 1 .. Len(tokens) : tokens[i].t = t /\ depth(i) = 0}
      parts(i) == {Means(SubSeq(tokens, 1, i - 1), values), Means(SubSeq(tokens, i + 1, Len(tokens)), values)}
  IN  CASE at("||") # {} -> TRUE \in parts(Min(at("||")))
        [] at("||") = {} /\ at("&&") # {} -> FALSE \notin parts(Min(at("&&")))
        [] at("||") \cup at("&&") = {} ->
             CASE tokens[1].t = "!" -> ~ Means(SubSeq(tokens, 3, Len(tokens) - 1), values)
               [] tokens[1].t = "(" -> Means(SubSeq(tokens, 2, Len(tokens) - 1), values)
               [] tokens[1].t = "eq" -> Satisfies(tokens[1], values[tokens[1].attr])
=============================================================================
