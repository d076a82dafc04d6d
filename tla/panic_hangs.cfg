SPECIFICATION Spec
CONSTANTS
  Tasks = {"shell", "gui", "server"}
  Shell = "shell"
  Gui = "gui"
  ScreenBytes = 3145728
PROPERTY PanicIsReported
