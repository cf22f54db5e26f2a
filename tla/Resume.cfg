\* Client-side RESUME_CLIENT on a normal server (standalone or not) and on
\* a router: two connections resume one client.
CONSTANTS
  ServerTypes = {"server", "router"}
  a1 = a1
  a2 = a2
  a3 = a3
  Conns = {a1, a2}
  None = None
  CounterBits <- MCCounterBits
SPECIFICATION Spec
INVARIANT TypeOK
INVARIANT NoDoubleResume
PROPERTY ResumeDecided
\* Every connection resumes once at most; when all are decided the model
\* has no input left, which is not a deadlock of the server.
CHECK_DEADLOCK FALSE
