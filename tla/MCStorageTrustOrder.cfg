\* One process and one renewal are enough.
CONSTANTS
  Procs = {job}
  job = job
  Replicas = {r1}
  r1 = r1
  Namespaces = 1
  Identities = 1
  Ca <- MCCa
  MaxCert = 2
  MaxCred = 1

SPECIFICATION Spec
PROPERTY TrustIsVerified
