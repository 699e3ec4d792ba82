---------------------------- MODULE ImageCreator ----------------------------
(***************************************************************************)
(* The image creator: MainWindow, ImageCreatorSettings, AESKeyFile and     *)
(* FirmwareImageContainer. Settings live in three places, the window, the  *)
(* object imageCreatorSettings and the settings files, one in each         *)
(* directory; what is read and written when an image is created follows    *)
(* the absolute paths, which only load and save compute from the names.    *)
(***************************************************************************)
EXTENDS FirmwareEncoder

VARIABLES
  program,              \* "open", "closed" or "aborted"
  ui,                   \* what the window shows
  btnSave,              \* the button is enabled
  status,               \* the status line
  imageCreatorSettings,
  settingsFile,         \* the contents of the settings files
  existing,             \* the settings files that exist
  LastSettingsFile,     \* the one to load at the next start
  keyFile,              \* the key in the key file, NoKey if it is not usable
  image,                \* the image file the last step has written
  bundle                \* the bundle the last step has written, as lines or as bytes

windowVars  == <<program, ui, btnSave, status>>
settingVars == <<imageCreatorSettings, settingsFile, existing, LastSettingsFile>>
creatorVars == <<windowVars, settingVars, keyFile, image, bundle>>

Defaults == [app |-> NoName, key |-> NoName, crypto |-> "plain", bundle |-> FALSE]

-----------------------------------------------------------------------------
(* ImageCreatorSettings: what it holds of the window is taken over from the *)
(* window anew before every use, so only the paths are kept of it.          *)

\* Mutated form of set_absolute_file_paths: saving to another directory keeps
\* the names of before.
set_absolute_file_pathsMutant(file, chosen) ==
  [file |-> file, absolute |-> [imageCreatorSettings.absolute EXCEPT !.root = file]]

set_absolute_file_paths(file, chosen) ==
  [file |-> file, absolute |-> [root |-> file, app |-> chosen.app, key |-> chosen.key]]

\* Mutated form of load: the button is enabled for every file.
loadMutant(file) ==
  /\ imageCreatorSettings' = set_absolute_file_paths(file, settingsFile[file])
  /\ ui' = settingsFile[file]
  /\ btnSave' = TRUE

\* A file that does not exist yields the defaults.
load(file) ==
  /\ imageCreatorSettings' = set_absolute_file_paths(file, settingsFile[file])
  /\ ui' = settingsFile[file]
  /\ btnSave' = (file \in existing)

\* What the window shows and the paths of before.
saveUIToSettings == [chosen |-> ui, absolute |-> imageCreatorSettings.absolute]

\* saveUIToSettings and save
save(file) ==
  /\ settingsFile' = [settingsFile EXCEPT ![file] = ui]
  /\ existing' = existing \union {file}
  /\ imageCreatorSettings' = set_absolute_file_paths(file, ui)

-----------------------------------------------------------------------------
(* MainWindow                                                               *)

CreatorInit ==
  /\ program = "closed"
  /\ ui = Defaults /\ btnSave = FALSE /\ status = ""
  /\ existing = {} /\ settingsFile = [r \in Roots |-> Defaults]
  /\ LastSettingsFile \in Roots
  /\ imageCreatorSettings = [file |-> LastSettingsFile, absolute |->
       [root |-> LastSettingsFile, app |-> NoName, key |-> NoName]]
  /\ keyFile \in Keys \union {NoKey}
  /\ image = NoFile /\ bundle = NoBundle

Open == program = "open"

NothingWritten == image' = NoFile /\ bundle' = NoBundle

\* The window with all it shows is gone.
WindowGone == ui' = Defaults /\ btnSave' = FALSE /\ status' = ""

\* The constructor of MainWindow
Start ==
  /\ ~Open
  /\ program' = "open"
  /\ load(LastSettingsFile)
  /\ status' = ""
  /\ NothingWritten
  /\ UNCHANGED <<settingsFile, existing, LastSettingsFile, keyFile>>

closeEvent ==
  /\ Open
  /\ program' = "closed"
  /\ save(imageCreatorSettings.file)
  /\ LastSettingsFile' = imageCreatorSettings.file
  /\ WindowGone /\ NothingWritten
  /\ UNCHANGED keyFile

\* The user changes one field of the window.
Edit ==
  /\ Open
  /\ \/ \E n \in (AppNames \union {NoName}) \ {ui.app} : ui' = [ui EXCEPT !.app = n]
     \/ \E n \in {KeyName, NoName} \ {ui.key} : ui' = [ui EXCEPT !.key = n]
     \/ \E c \in {"plain", "aes"} \ {ui.crypto} : ui' = [ui EXCEPT !.crypto = c]
     \/ ui' = [ui EXCEPT !.bundle = ~@]
  /\ NothingWritten
  /\ UNCHANGED <<program, btnSave, status, settingVars, keyFile>>

on_btnLoad_clicked ==
  /\ Open
  /\ \E file \in Roots : load(file)
  /\ NothingWritten
  /\ UNCHANGED <<program, status, settingsFile, existing, LastSettingsFile,
                 keyFile>>

\* The button is enabled only for a file that exists.
on_btnSave_clicked ==
  /\ Open /\ btnSave
  /\ save(imageCreatorSettings.file)
  /\ NothingWritten
  /\ UNCHANGED <<windowVars, LastSettingsFile, keyFile>>

\* The window, and with it the button, stays as it is.
on_btnSaveAs_clicked ==
  /\ Open
  /\ \E file \in Roots : save(file)
  /\ NothingWritten
  /\ UNCHANGED <<windowVars, LastSettingsFile, keyFile>>

on_btnPreview_clicked ==
  /\ Open
  /\ status' = IF Succeeds(saveUIToSettings, keyFile) THEN "" ELSE "error"
  /\ NothingWritten
  /\ UNCHANGED <<program, ui, btnSave, settingVars, keyFile>>

\* An image is saved whatever came of loading it. The status line complains
\* when loading failed, and says what it said before when only saving failed.
on_btnCreateImage_clicked ==
  LET s  == saveUIToSettings
      fw == Prepared(s, keyFile, ZeroIV)
  IN
  /\ Open
  /\ \E opened \in BOOLEAN :
       /\ image' = IF opened THEN save_compiled_image(fw) ELSE NoFile
       /\ IF AssertionHolds(s, fw)
            THEN /\ status' = IF ~Succeeds(s, keyFile) THEN "error"
                              ELSE IF opened THEN "" ELSE status
                 /\ UNCHANGED <<program, ui, btnSave>>
            ELSE program' = "aborted" /\ WindowGone
  /\ IF s.chosen.bundle /\ AssertionHolds(s, fw)
       THEN \E suffix \in {"hex", "bin", ""} : bundle' = Dumped(Bundled(s, fw), suffix)
       ELSE bundle' = NoBundle
  /\ UNCHANGED <<settingVars, keyFile>>

\* The new key is written to a file and the window names it. Without a source
\* of random numbers there is no key.
on_actionCreate_AES_128_key ==
  /\ Open
  /\ keyFile' \in Keys
  /\ ui' = [ui EXCEPT !.key = KeyName]
  /\ NothingWritten
  /\ UNCHANGED <<program, btnSave, status, settingVars>>

CreatorNext ==
  \/ Start \/ closeEvent \/ Edit
  \/ on_btnLoad_clicked \/ on_btnSave_clicked \/ on_btnSaveAs_clicked
  \/ on_btnPreview_clicked \/ on_btnCreateImage_clicked
  \/ on_actionCreate_AES_128_key

CreatorSpec == CreatorInit /\ [][CreatorNext]_creatorVars

-----------------------------------------------------------------------------
\* The variables have their types; the Save button only ever overwrites a
\* settings file that is there (mainwindow.cpp:43).
CreatorTypeOK ==
  /\ program \in {"open", "closed", "aborted"}
  /\ ui \in Selections /\ btnSave \in BOOLEAN
  /\ status \in {"", "error"}
  /\ imageCreatorSettings.absolute \in Paths
  /\ settingsFile \in [Roots -> Selections]
  /\ {imageCreatorSettings.file, LastSettingsFile} \union existing \subseteq Roots
  /\ keyFile \in Keys \union {NoKey}
  /\ btnSave => imageCreatorSettings.file \in existing

\* Whatever was edited, saved elsewhere or loaded: an image is made from the
\* files a settings file on disk names, seen from its directory, never from
\* names that were only typed (imagecreatorsettings.cpp:20, called by load and
\* save alone, while mainwindow.cpp:178 takes over everything else).
PathsAsStored ==
  LET s == imageCreatorSettings
  IN Open => s.absolute = [root |-> s.file, app |-> settingsFile[s.file].app,
                           key |-> settingsFile[s.file].key]

\* A user who asked for encryption and sees no complaint gets no plain text:
\* the image that was written holds nothing but what is encrypted with the
\* key of the key file (firmwareencoder.cpp:85 to 105). Where the key cannot
\* be read the plain image is written, under the message that saving failed.
NoSilentPlain ==
  [][image' # NoFile /\ program' = "open" /\ ui.crypto = "aes" /\ status' = "" =>
       /\ image'.data.binary.key = keyFile /\ keyFile # NoKey
       /\ image'.data.meta.crypto = "aes"]_creatorVars

\* The lowest address of the application lies behind the bootloader, and the
\* descriptor within it.
InOrder(boot, app, descriptor) ==
  /\ Max(DOMAIN boot) < Min(DOMAIN app)
  /\ Min(DOMAIN boot) < descriptor
  /\ descriptor + 4 < Max(DOMAIN boot) + 1

\* In a bundle that is written as a hex file every byte is where its own file
\* says: the bootloader but for its descriptor, the descriptor at the address
\* of its symbol, the application, and zeros elsewhere (hexfile.cpp:68 to 194).
\* Bundles whose parts are not in ascending order are excepted: there the
\* padding is one byte too long or a part is dropped (hexfile.cpp:92 and 104).
BundleKeepsAddresses ==
  [][bundle'.lines # <<>> =>
       LET root == imageCreatorSettings.absolute.root
           boot == BootHex[root]
           app  == AppHex[root][imageCreatorSettings.absolute.app]
           at   == Symbols[root][1][2]
           descriptor == compile_firmware_descriptor_binary(Prepared(saveUIToSettings, keyFile, ZeroIV))
           byte(a) == IF a \in at .. at + 3 THEN descriptor[a - at + 1]
                      ELSE IF a \in DOMAIN boot THEN boot[a]
                      ELSE IF a \in DOMAIN app THEN app[a] ELSE 0
       IN Symbols[root] # <<>> /\ Readable(boot) /\ InOrder(boot, app, at) =>
            ReadBack(bundle'.lines) =
              {<<a, byte(a)>> : a \in Min(DOMAIN boot) .. Max(DOMAIN app)}]_creatorVars

\* assert(sha256.size() == CHECKSUM_SIZE) of firmwaremetadata.cpp:311.
ChecksumHasItsSize == program # "aborted"
=============================================================================
