CONSTANTS
  Jobs <- MCJobs
  Answers <- MCAnswers
  Payloads <- MCPayloads
  ToolErrors = {"auth", "timeout", "quota", "provider"}
  SecretStores = {".env", "q/.env"}
  Quoted <- MCQuoted
  InputMax = 2
  TurnsMax = 2
  TailMax = 3
  ByteCap = 3
  Pipe = 2
SPECIFICATION HookSpec
INVARIANTS NoUnearnedPass SentHonest NothingLeftBehind
PROPERTIES HookEnds
