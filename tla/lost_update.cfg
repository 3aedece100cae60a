SPECIFICATION Spec
CONSTANTS
  Users <- MCUsers
  Companies <- MCCompanies
  Requests = {r1, r2}
  Data <- MCData
  Blank = Blank
  Spellings <- MCSpellings
  CompanyOf <- MCCompanyOf
  Canonical <- MCCanonical
  Seed = seed
  Calls <- UserCalls
  Tables <- GoneTables
  MaxFaults = 0
  StripeColumn = TRUE
  u1 = u1 u2 = u2 u3 = u3 u4 = u4
  c1 = c1 c2 = c2 c3 = c3
  n1 = n1 n2 = n2 e1 = e1 e2 = e2 e3 = e3 k1 = k1 k2 = k2 k3 = k3
  s1 = s1 s2 = s2 s3 = s3 S1 = S1 sx = sx
PROPERTY UnprovidedFieldsKept
