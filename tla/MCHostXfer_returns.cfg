SPECIFICATION FairSpec
CONSTANTS
  d1 = d1  i1 = i1  eIn = eIn  eOut = eOut
  x1 = x1  x2 = x2  x3 = x3  a0 = a0  a1 = a1
  Ep0 = Ep0  None = None
  Devs <- MCDevs  Itfs <- MCItfs  Alts <- MCAlts
  Eps <- MCInEps  InEps <- MCInEps  ItfOf <- MCItfOf  Xfers <- MCOneXfer
  MaxClaims = 1  MaxPipes = 2
  Unplugs = TRUE  Keeps = {FALSE}  Forevers = {TRUE, FALSE}  AllocFails = TRUE  Prompt = TRUE
PROPERTIES CallReturns NoReportLost
