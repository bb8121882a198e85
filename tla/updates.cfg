\* One sponsor with three sponsorships of two athletes, a new update and an earlier one, two files.
SPECIFICATION Spec
CONSTANTS
  news = news  past = past  s1 = s1  s2 = s2  s3 = s3  f1 = f1  f2 = f2
  Updates = {news, past}
  Earlier = {past}
  Sponsorships = {s1, s2, s3}
  Files = {f1, f2}
  Uploaded = {f2}
  Users = {"asha"}
  Calls = {1, 2}
  Notices <- MCNotices
  Recipient <- MCRecipient
  SponsorOf <- MCSponsorOf
  AthleteOf <- MCAthleteOf
  AuthorOf <- MCAuthorOf
  UploaderOf <- MCUploaderOf
  General = General
  NoDocument = NoDocument
  Loose = Loose
  NoFile = NoFile
  NoUpdate = NoUpdate
  NoRow = NoRow
INVARIANTS
  HeardOnce
  MailIsHonest
  AttachmentsAreOwn
PROPERTIES
  BellCatchesUp
CHECK_DEADLOCK FALSE
