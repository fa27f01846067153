SPECIFICATION Spec
CONSTANTS
  Calls <- MCCalls
  Arguments <- MCArguments
  Keywords <- MCKeywords
  FirstField <- MCFirstField
  TypeDict <- MCTypeDict
INVARIANTS ReadRight CallsJudged
