SPECIFICATION Spec
CONSTANTS
  Parts = {"timing", "agentx", "planner", "planner_lead", "tokens", "prompts", "ir", "ir_text", "json", "dataset", "records"}
  None = None
INVARIANTS
  ConversionExact
  PromptsReuse
  InputsComplete
CHECK_DEADLOCK FALSE
