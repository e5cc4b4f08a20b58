\* A buffer of nine bytes, a caller without and one with room for a body.
SPECIFICATION Spec
CONSTANTS Answers <- TwoAnswers
          BodyLens = {0, 3}
          BufLen = 9
          TimeoutAll = 4
          TimeoutAfterDNS = 3
          MaxDNS = 4
INVARIANTS TypeOK DeadlineKept OkIsAnswer
\* the call returns
CHECK_DEADLOCK FALSE
