SPECIFICATION Spec

CONSTANTS
  Number <- MCNumber
  UrlText <- MCUrlText
  Target <- MCTarget
  Replacement <- MCReplacement
  HostArg <- MCHostArg
  LocArg <- MCLocArg
  PortArg <- MCPortArg
  TextArg <- MCTextArg
  UrlArg <- MCUrlArg
  FieldArg <- MCFieldArg
  StatusArg <- MCStatusArg
  FlagArg <- MCFlagArg
  BodyArg <- MCBodyArg
  QueryArg <- MCQueryArg
  ValueArg <- MCValueArg
  ReplyArg <- MCReplyArg
  RedirectArg <- MCRedirectArg
  FieldName <- MCFieldName
  QueryName <- MCQueryName
  Requests <- MCRequests
  Responses <- MCResponses
  DefaultAddr = 1
  LocalAddr = 2
  MaxDo = 2

INVARIANT ReplyTogether
PROPERTY OwnMessage RequestWhole QueryKept FieldsAsAsked

\* The transaction ends, and the process stops at an exception or a loop.
CHECK_DEADLOCK FALSE
