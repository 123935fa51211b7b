\* Two agents, a procedure each, one tool call and one request of the API, one fault.
SPECIFICATION Spec
CONSTANTS
  frontDesk = frontDesk  billing = billing
  internet = internet  refund = refund
  ask = ask  check = check  resolved = resolved  handOver = handOver
  verify = verify  paid = paid  human = human
  faq = faq  rates = rates
  c1 = c1  q1 = q1
  Transfer = Transfer  NoStep = NoStep  NoRequest = NoRequest
  Agent = {frontDesk, billing}
  First = frontDesk
  Procedure = {internet, refund}
  Owner <- OwnerOf
  OnCall = {internet}
  Step = {ask, check, resolved, handOver, verify, paid, human}
  StartStep <- StartOf
  Moves <- MovesOf
  Ends = {resolved, paid}
  Escalates <- EscalatesTo
  Skill = {faq, rates}
  Available <- SkillsOf
  Cap = 1
  ToolCall = {c1}
  Request = {q1}
  MaxMove = 4
  MaxFault = 1
INVARIANTS SummaryTells RecordIsPipeline AnswerIsTrue
\* The call is over and its log written.
CHECK_DEADLOCK FALSE
