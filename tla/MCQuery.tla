------------------------------ MODULE MCQuery ------------------------------
(* Two inodes with a name, a rating and perhaps a comment, and queries of   *)
(* every kind about them.                                                   *)
EXTENDS Query

Types == [name |-> "string", size |-> "number", last_modified |-> "number", rating |-> "number", comment |-> "string"]
Weights == [name |-> 1, size |-> 2, last_modified |-> 1, rating |-> 2]
SomeValues == [name |-> {<<1>>, <<2, 1>>, <<2, 2>>}, size |-> {<<1>>, <<2>>}, last_modified |-> {<<1, 1>>, <<2, 2>>},
               rating |-> {<<1>>, <<3>>}, comment |-> {<<1>>}]
Inode(n, r, c) == [name |-> n, size |-> <<1>>, last_modified |-> <<1, 1>>, rating |-> r, comment |-> c]
SomeNodes == {Inode(<<1>>, <<1>>, Missing), Inode(<<2, 1>>, <<3>>, <<1>>),
              Inode(<<2, 2>>, Missing, <<1>>), Inode(<<2, 1>>, <<1>>, Missing)}

Plain(attr, op, v) == Equation(attr, op, v, <<>>)
Pattern(op, pattern) == Equation("name", op, <<>>, pattern)
And == Token("&&")
Or == Token("||")
Not(tokens) == <<Token("!"), Token("(")>> \o tokens \o <<Token(")")>>
Brackets(tokens) == <<Token("(")>> \o tokens \o <<Token(")")>>

Name == Plain("name", "=", <<2, 1>>)
Rated == Plain("rating", ">=", <<2>>)
Low == Plain("rating", "<", <<2>>)
Comment == Plain("comment", "=", <<1>>)
Recent == Plain("last_modified", "<=", <<1>>)
Small == Plain("size", "<", <<2>>)
Two == Pattern("=", <<Char(2), Star>>)

SomeExpressions == <<
  <<Name>>, <<Plain("name", "!=", <<1>>)>>, <<Comment>>, <<Recent>>,
  <<Plain("last_modified", "=", <<1>>)>>, <<Plain("last_modified", ">", <<1>>)>>,
  <<Two, And, Rated>>, <<Two, Or, Name>>, <<Small, Or, Rated>>,
  <<Pattern("!=", <<Star, Char(1)>>)>>,
  <<Pattern("=", <<Star, CharSet({1}, TRUE), Star>>), Or, Plain("name", "<=", <<1>>)>>,
  <<Pattern("=", <<Star, AnyChar>>)>>,
  <<Low, Or, Name, And, Comment>>,
  <<Name, And>> \o Brackets(<<Rated, Or, Plain("comment", "!=", <<1>>)>>),
  <<Comment, And>> \o Brackets(<<Low, Or, Name>>),
  Not(<<Low, Or, Plain("name", ">", <<2, 1>>), And, Comment>>),
  Not(<<Plain("name", ">", <<2, 1>>)>>), Not(<<Name, And>> \o Not(<<Rated>>)),
  <<Rated, And, Comment, And, Small>> >>
=============================================================================
