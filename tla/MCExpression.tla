---------------------------- MODULE MCExpression ----------------------------
EXTENDS ExpressionMeaning

MCLimit == [t \in Word |->
  CASE t \in {"literal", "not", "=", ".", ",", ":", "(", "<", "+", "-"} -> 1
    [] t \in {"[", "and", "or", "=="} -> 2
    [] OTHER -> MaxTokens]

MCOperand == {Null, Bool(TRUE), Bool(FALSE), Number(0), Number(2), Of("String", <<1>>)}
=============================================================================
