\* The Job of a sync and the CronJob; one renewal of the certificate, with a
\* new root, and one of the credentials.
CONSTANTS
  Procs = {job, cronjob}
  job = job
  cronjob = cronjob
  Replicas = {r1, r2}
  r1 = r1
  r2 = r2
  Namespaces = 2
  Identities = 2
  Ca <- MCCa
  MaxCert = 2
  MaxCred = 2

SPECIFICATION LiveSpec
INVARIANTS
  TypeOK
  ServedBeforeTrusted
PROPERTY Converges
