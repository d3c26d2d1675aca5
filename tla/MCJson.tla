------------------------------- MODULE MCJson -------------------------------
(***************************************************************************)
(* Texts for the parser: every text of up to four of the tokens below, a  *)
(* few whole texts as peers and files hold them, with one piece of each    *)
(* left out or put in another's place, and the \u literals at the edges of *)
(* UTF-8 and of the surrogates.                                            *)
(***************************************************************************)
EXTENDS JsonProps

Tokens ==
  {<<LBrace>>, <<RBrace>>, <<LBracket>>, <<RBracket>>, <<Comma>>, <<Colon>>, <<Minus>>, <<32>>,
   <<Quote, 97, Quote>>, <<Quote, 98>>, <<49, 50>>, Literal.null}

Short == UNION {{FlattenSeq(s) : s \in [1..n -> Tokens]} : n \in 0..4}

Name_ == <<Quote, 97, Quote>>
Whole ==
  {\* {"a":"\n\"\n","a":[]}
   <<<<LBrace>>, Name_, <<Colon>>, <<Quote, Backslash, 110, Backslash, Quote, Backslash, 110, Quote>>,
     <<Comma>>, Name_, <<Colon>>, <<LBracket>>, <<RBracket>>, <<RBrace>>>>,
   \* [true, -12 ,{}]
   <<<<LBracket>>, Literal.true, <<Comma, 32>>, <<Minus, 49, 50>>, <<32>>, <<Comma>>,
     <<LBrace>>, <<RBrace>>, <<RBracket>>>>,
   \* BOM {"a":{"a":null},"a":false}
   <<<<239, 187, 191>>, <<LBrace>>, Name_, <<Colon>>, <<LBrace>>, Name_, <<Colon>>, Literal.null,
     <<RBrace>>, <<Comma>>, Name_, <<Colon>>, Literal.false, <<RBrace>>>>}

Edited ==
  UNION {{FlattenSeq([w EXCEPT ![k] = piece]) : k \in DOMAIN w,
            piece \in {<<>>, <<Quote>>, <<32>>, <<RBrace>>, <<LBracket>>, <<Backslash>>}}
         : w \in Whole}

Hex(u) == [k \in 1..4 |-> HexLetter((u \div (<<4096, 256, 16, 1>>[k])) % 16)]
EscapeOf(u) == <<Backslash, 117>> \o Hex(u)
Edges == {0, 1, 127, 128, 2047, 2048, 55295, 55296, 56319, 56320, 57343, 57344, 65535}
InString(bytes) == <<Quote>> \o bytes \o <<Quote>>
Literals ==
  {InString(EscapeOf(u)) : u \in Edges}
  \cup {InString(EscapeOf(u) \o EscapeOf(v)) : u \in {55296, 56319}, v \in {55295, 56320, 57343, 57344}}
  \cup {InString(SubSeq(EscapeOf(55296) \o EscapeOf(56320), 1, n)) : n \in 1..11}
  \cup {InString(<<97>> \o EscapeOf(27) \o <<195, 164>>), InString(<<Backslash, 117, 65, 70, 102, 122>>),
        InString(<<Backslash, 118>>), InString(<<Backslash, Slash, Backslash, Backslash, 1>>)}

MCTexts == Short \cup {FlattenSeq(w) : w \in Whole} \cup Edited \cup Literals

\* Values with control characters, and with what would be an object.
MCMembers ==
  {<<<<97>>, <<31, 31, LBrace>>>>, <<<<Quote>>, <<>>>>,
   <<<<98>>, <<LBrace, Quote, Quote, Colon, Quote, Quote, RBrace>>>>}
=============================================================================
