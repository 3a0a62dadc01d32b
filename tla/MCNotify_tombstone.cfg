SPECIFICATION NotifySpec
CONSTANTS
  NotifyCerts = {n1, n2}
  subj = subj
  Subjects <- MCSubjects
  Subject <- MCSubject
  Periods = {p1}
  Replicas = {r1}
  MaxDeliver = 2
  MaxQueue = 2
  MaxFaults = 0
PROPERTIES LiveCertNotified
CHECK_DEADLOCK FALSE
