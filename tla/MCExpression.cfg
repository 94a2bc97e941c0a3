\* Every input of up to seven of these tokens, each at most MCLimit times, with strings
\* of the spelling of some; calls have one argument at most.  The code of the inputs with
\* up to five operands and operators is run.
SPECIFICATION Spec
CONSTANTS
  Word = {"name", "literal", "not", "-", "or", "and", "==", "<", "+", "(", ")", "[", "]", ":", ",", "=", ".", ";"}
  Quoted = {"(", ")", "]", ":", ",", "+", ";"}
  UINT8_MAX = 2
  Operand <- MCOperand
  MaxTokens = 7
  Limit <- MCLimit
  MaxRun = 5
INVARIANTS
  TypeOK
  ReadsTheLanguage
  CodeOfTheTree
  ComputesTheMeaning
