SPECIFICATION MCSpec
CONSTANTS
  Words = {"host", "key", "aes", "gcm"}
  Ports = {443}
  Gathered <- Spellings
  MaxNodes = 3
  Hosts = {"", "own", "alias", "front"}
  Absent = Absent
  CDN_HOST = "front"
  SNI_HOST = ""
INVARIANTS FirstOfEachKept DuplicatesShareHash LinksComeThrough ModesKeepTheNode AccountPerMode SettingsFit ProbeVerdict
